---- MODULE Spec2Model ----
(***************************************************************************)
(* testpilot: the test runner's per-step iteration loop and case driver    *)
(* (runTestCase in src/runner.ts), with the decision source (LLMAdapter)   *)
(* and the agent-browser CLI as nondeterministic collaborators.            *)
(***************************************************************************)
EXTENDS Integers, Sequences, FiniteSets, TLC

\* ------------------------------------------------------------------ bounds
\* Number of steps of the test case.
NumSteps == 2
\* Most commands the decision source asks for within one case; also the
\* longest command list of one response.
MaxCmds == 2

\* --------------------------------------------------------------- constants
\* const MAX_ITERATIONS = 10; // safety limit
MAX_ITERATIONS == 10

\* The refresh sentinel of a response's command list.
SNAPSHOT == "__SNAPSHOT__"
\* A command string.
ClickCmd == "click @e1"
\* JSON values that are not strings: parseAgentResponse passes the elements
\* of parsed.commands through unchecked.  A number has no .length and no
\* .startsWith; null has no properties at all.
JsonNumber == "<number 5>"
JsonNull == "<null>"

IsString(cmd) == cmd \notin {JsonNumber, JsonNull}

\* What a response's command list may hold.
CommandValues == {ClickCmd, SNAPSHOT, JsonNumber, JsonNull}

\* Sequences over S of length at most n.
SeqUpTo(S, n) == UNION {[1..k -> S] : k \in 0..n}

\* action.actual_result values: parseAgentResponse yields "" for a missing
\* or empty field.
ActualTexts == {"", "observed"}

\* thought of the action returned for a text that did not parse:
\* `Parse error (em dash) raw response: ${raw.slice(0, 200)}`.
ParseErrorThought == "Parse error - raw response"

\* AgentAction (types.ts), without the command list.
AgentAction ==
  [thought : {"", ParseErrorThought}, done : BOOLEAN, success : BOOLEAN,
   actual_result : ActualTexts]


\* ------------------------------------------------------ parseAgentResponse
\* A JSON value as JSON.parse returns it, or a property that is not there
\* (undefined).  s is a string's text or a number's decimal text, items an
\* array's elements (strings, JsonNumber or JsonNull).
JValue(t, str, items) == [t |-> t, s |-> str, items |-> items]
JUndefined == JValue("undefined", "", <<>>)
JNull == JValue("null", "", <<>>)
JTrue == JValue("true", "", <<>>)
JFalse == JValue("false", "", <<>>)
JObject == JValue("object", "", <<>>)
JString(str) == JValue("string", str, <<>>)
JNumber(str) == JValue("number", str, <<>>)
JArray(items) == JValue("array", "", items)
JBool(b) == IF b THEN JTrue ELSE JFalse

\* Boolean(v), and the test of `v || ""`: undefined, null, false, "" and 0
\* are falsy, everything else is truthy.
Truthy(v) ==
  CASE v.t \in {"undefined", "null", "false"} -> FALSE
    [] v.t = "string" -> v.s # ""
    [] v.t = "number" -> v.s # "0"
    [] OTHER -> TRUE

\* A value as the text it stands for in this model: a string is its text,
\* a value of another type is marked as such.
TextOf(v) ==
  IF v.t = "string" THEN v.s
  ELSE IF v.t = "number" THEN "<number " \o v.s \o ">"
  ELSE "<" \o v.t \o ">"

\* parsed.x || ""
OrEmpty(v) == IF Truthy(v) THEN TextOf(v) ELSE ""

\* Array.isArray(parsed.commands) ? parsed.commands : []
CommandsOf(v) == IF v.t = "array" THEN v.items ELSE <<>>

\* The value JSON.parse returns: an object with the five properties read
\* (a property that is not there is undefined), or a value of another type,
\* of which every property is undefined and null has none at all.
NoFields ==
  [thought |-> JUndefined, commands |-> JUndefined, done |-> JUndefined,
   success |-> JUndefined, actual_result |-> JUndefined]
Doc(t, f) == [t |-> t, f |-> f]
NoDoc == Doc("none", NoFields)
ObjectDoc(thought, commands, done, success, actual) ==
  Doc("object",
      [thought |-> thought, commands |-> commands, done |-> done,
       success |-> success, actual_result |-> actual])

\* A response text, as the pieces the parser tells apart: a ``` fence, the
\* word json, a newline, a blank, the text of one JSON value, or other text.
Tok(k) == [k |-> k, doc |-> NoDoc]
DocTok(d) == [k |-> "doc", doc |-> d]
FENCE == Tok("fence")
JSONTAG == Tok("json")
NL == Tok("nl")
SP == Tok("sp")
TEXT == Tok("text")
IsWs(tok) == tok.k \in {"nl", "sp"}

\* raw.trim()
RECURSIVE TrimStart(_)
TrimStart(ts) ==
  IF ts # <<>> /\ IsWs(Head(ts)) THEN TrimStart(Tail(ts)) ELSE ts
RECURSIVE TrimEnd(_)
TrimEnd(ts) ==
  IF ts # <<>> /\ IsWs(ts[Len(ts)]) THEN TrimEnd(SubSeq(ts, 1, Len(ts) - 1))
  ELSE ts
Trim(ts) == TrimEnd(TrimStart(ts))

\* Variant: the opening fence is taken off only with its json tag.
StripOpeningFence_TagRequired(ts) ==
  IF Tail(ts) # <<>> /\ Head(Tail(ts)) = JSONTAG
    THEN LET b == Tail(Tail(ts))
         IN  IF b # <<>> /\ Head(b) = NL THEN Tail(b) ELSE b
    ELSE ts

\* cleaned.replace(/^```(?:json)?\n?/, "") on a text that starts with ```
StripOpeningFence(ts) ==
  LET a == Tail(ts)
      b == IF a # <<>> /\ Head(a) = JSONTAG THEN Tail(a) ELSE a
  IN  IF b # <<>> /\ Head(b) = NL THEN Tail(b) ELSE b

\* .replace(/\n?```$/, "")
StripClosingFence(ts) ==
  IF ts # <<>> /\ ts[Len(ts)] = FENCE
    THEN LET a == SubSeq(ts, 1, Len(ts) - 1)
         IN  IF a # <<>> /\ a[Len(a)] = NL THEN SubSeq(a, 1, Len(a) - 1)
             ELSE a
    ELSE ts

\* JSON.parse(cleaned): one JSON value with blanks and newlines around it,
\* or a SyntaxError.
JsonParse(ts) ==
  LET body == Trim(ts)
  IN  IF Len(body) = 1 /\ body[1].k = "doc"
        THEN [ok |-> TRUE, value |-> body[1].doc]
        ELSE [ok |-> FALSE, value |-> NoDoc]

\* Variant: the action returned for a text that did not parse is done.
ParseFailure_Done ==
  [thought |-> ParseErrorThought, commands |-> <<>>, done |-> TRUE,
   success |-> FALSE, actual_result |-> ""]

\* catch (err) { return { thought: `Parse error ...`, commands: [],
\*                        done: false, success: false, actual_result: "" } }
ParseFailure ==
  [thought |-> ParseErrorThought, commands |-> <<>>, done |-> FALSE,
   success |-> FALSE, actual_result |-> ""]

\* parseAgentResponse(raw).  Reading a property of null throws a TypeError
\* inside the try, which the catch takes like a SyntaxError.
parseAgentResponse(raw) ==
  LET trimmed == Trim(raw)
      cleaned == IF trimmed # <<>> /\ Head(trimmed) = FENCE
                   THEN StripClosingFence(StripOpeningFence(trimmed))
                   ELSE trimmed
      parsed  == JsonParse(cleaned)
      f       == parsed.value.f
  IN  IF parsed.ok /\ parsed.value.t # "null"
        THEN [thought       |-> OrEmpty(f.thought),
              commands      |-> CommandsOf(f.commands),
              done          |-> Truthy(f.done),
              success       |-> Truthy(f.success),
              actual_result |-> OrEmpty(f.actual_result)]
        ELSE ParseFailure

\* The response texts the adapter gets in a run of runTestCase: a JSON
\* object of the schema's types, or a text that is not JSON.
JsonText(cmds, d, ok, actual) ==
  << DocTok(ObjectDoc(JString(""), JArray(cmds), JBool(d), JBool(ok),
                      JString(actual))) >>
NotJsonText == <<TEXT>>

\* The action without its command list.
WithoutCommands(a) ==
  [thought |-> a.thought, done |-> a.done, success |-> a.success,
   actual_result |-> a.actual_result]

\* No exception: `at` is "decide" or "dispatch" once one was raised.
NoError == [at |-> "none", message |-> ""]

\* No report yet.
NoReport == [status |-> "none", steps |-> <<>>, passed |-> 0]

\* No action in scope.
NoAction ==
  [thought |-> "", done |-> FALSE, success |-> FALSE, actual_result |-> ""]

\* err.message of what adapter.decideAction throws (callApi).
DecideErrors == {"Rate limited (429)", "Anthropic API error 500: boom"}

\* err.message of the TypeErrors dispatch raises on a non-string command.
NullError == "Cannot read properties of null (reading 'length')"
StartsWithError == "cmd.startsWith is not a function"

\* actualResult = `Error: ${err.message}`
ErrorText(msg) == "Error: " \o msg

\* actualResult of the exhausted loop.
TimeoutText ==
  "Step timed out after " \o ToString(MAX_ITERATIONS)
    \o " iterations without reaching a conclusion."

VARIABLES
  pc,            \* position in runTestCase
  stepIdx,       \* index of the step the for-of loop is at (1-based)
  iter,          \* let iter
  allCommands,   \* const allCommands: string[]
  stepStatus,    \* let stepStatus
  actualResult,  \* let actualResult
  action,        \* const action = await adapter.decideAction(request)
  todo,          \* commands of action.commands not yet iterated
  captured,      \* outcome of the latest capture: "none", "ok", "failed"
  stepResults,   \* const stepResults: StepResult[]
  overallStatus, \* let overallStatus
  report,        \* the TestReport returned, NoReport before
  \* history of the current step, as the collaborators saw it
  calls,         \* decideAction calls made
  reqIter,       \* request.iteration of the last call (0: none)
  sent,          \* commands handed to runBrowserCommand by dispatch
  raised,        \* the exception the step's catch took, NoError before
  cmdFailed,     \* a dispatched command's result had success = false
  shots,         \* outcomes of the step's takeStepScreenshot calls, in order
  sinceCapture   \* commands sent since `snapshot` was last assigned

\* The variables of runTestCase.
runnerVars == <<pc, stepIdx, iter, allCommands, stepStatus, actualResult,
                action, todo, captured, stepResults, overallStatus, report,
                calls, reqIter, sent, raised, cmdFailed, shots,
                sinceCapture>>

\* callApi of the autonomous adapters (providers/anthropic.ts and
\* providers/github-models.ts): one call, from its first fetch to its return
\* or throw.
VARIABLES
  provider,      \* which adapter's callApi runs
  attempt,       \* the loop counter of the retry loop
  rpc,           \* "idle", "fetch", "sleep", "returned" or "thrown"
  lastError,     \* message of lastError, "" while it is null
  waitSec,       \* the wait computed for the response in hand
  waits,         \* the waits slept so far, in order
  seen,          \* the responses fetch produced so far, in order
  result         \* what the call returned or threw

retryVars == <<provider, attempt, rpc, lastError, waitSec, waits, seen,
               result>>

\* decideAction of the autonomous adapters, fed by runTestCase's requests.
VARIABLES
  conversationHistory,  \* the adapter's turns, each [role, step, iteration]
  request,              \* the LLMRequest in hand
  apc,                  \* "idle", "decide", "call", "returned" or "done"
  messages,             \* the turns the callApi under way was given
  contents,             \* content of each turn of conversationHistory
  answered              \* decide calls that got a response since the reset

adapterVars == <<conversationHistory, request, apc, messages, contents,
                 answered>>

\* parseAgentResponse (llm-shared.ts), applied to one response text.
VARIABLES
  raw,           \* the response text
  parsed,        \* the AgentAction returned for it
  ppc            \* "idle", "raw" or "parsed"

parseVars == <<raw, parsed, ppc>>

\* parseCommand (runner.ts), applied to one command string and then to its
\* tokens joined with single blanks.
VARIABLES
  cmd,           \* the command string, as its characters
  args,          \* the tokens returned for it
  again,         \* the tokens returned for args.join(" ")
  settled,       \* the 1500 ms wait after the command was taken
  cpc            \* "idle", "cmd", "parsed" or "reparsed"

cmdVars == <<cmd, args, again, settled, cpc>>

\* main (runner.ts): the loop over the test files, with runTestCase reduced
\* to its setup, its steps' captures, decide calls and outcomes, and its
\* report.
VARIABLES
  mpc,           \* position in main and in the runTestCase it awaits
  caseIdx,       \* index of the test file the for-of loop is at (1-based)
  setupOk,       \* openUrl and waitForNetworkIdle both reported success
  caseStep,      \* index of the step runTestCase is at, 0 before the first
  caseIter,      \* let iter of that step
  snapshotOf,    \* the step whose getSnapshot filled `snapshot`, 0 for none
  caseResults,   \* runTestCase's stepResults, as statuses
  reports,       \* const reports: TestReport[]
  session,       \* the case whose openUrl opened the browser, 0 when closed
  closes,        \* per case, how often closeBrowser was called in its turn
  fatal,         \* per case, whether the catch of main took an error
  exitCode       \* the exit status of the process, 0 until main ends

mainVars == <<mpc, caseIdx, setupOk, caseStep, caseIter, snapshotOf,
              caseResults, reports, session, closes, fatal, exitCode>>

\* decideAction of the interactive adapter (providers/interactive.ts): the
\* lines read from stdin, from the first prompt to the return.
VARIABLES
  ipc,           \* the prompt awaited: "line", "verdict", "actual", "what";
                 \* "return" after the loop, "returned", "idle"
  iCommands,     \* const commands: string[]
  iDone,         \* let done
  iSuccess,      \* let success
  iActual,       \* let actual
  typed,         \* the lines answered so far, each with its prompt
  response,      \* the AgentAction returned
  iStatus,       \* stepStatus of the step the action ends
  iOverall       \* overallStatus after that step

interactiveVars == <<ipc, iCommands, iDone, iSuccess, iActual, typed,
                     response, iStatus, iOverall>>

\* The variables of the other components, which runTestCase leaves alone.
besidesRunner == <<retryVars, adapterVars, parseVars, cmdVars, mainVars,
                   interactiveVars>>

vars == <<runnerVars, besidesRunner>>

\* The steps of the test case, in file order (TestStep.step).
Steps == [i \in 1..NumSteps |-> [step |-> i]]

\* ----------------------------------------------------------------- helpers
\* getSnapshot/getUrl/getTitle: runBrowserCommand catches every failure of
\* the subprocess and returns success = false with whatever stdout there
\* was, so a failed capture yields a text, never an exception.
CaptureOutcome(ok) == IF ok THEN "ok" ELSE "failed"

RECURSIVE SumLen(_)
SumLen(rs) ==
  IF rs = <<>> THEN 0
  ELSE Len(Head(rs).commands_executed) + SumLen(Tail(rs))

\* Commands sent to the browser so far in the case.
CaseSent == SumLen(stepResults) + Len(sent)

\* if (stepStatus === "pass" && actualResult === "") { fail, timed out }
TimeoutCheck(status, actual) ==
  IF status = "pass" /\ actual = ""
    THEN [status |-> "fail", actual |-> TimeoutText]
    ELSE [status |-> status, actual |-> actual]

\* Variant: the case status follows the last step's status.
NextOverall_LastStep(overall, status) ==
  IF status = "error" THEN "error" ELSE IF status = "fail" THEN "fail" ELSE "pass"

\* if (stepStatus !== "pass") overallStatus = error ? "error" : "fail"
NextOverall(overall, status) ==
  IF status # "pass"
    THEN (IF status = "error" THEN "error" ELSE "fail")
    ELSE overall

\* Variant: iter <= MAX_ITERATIONS.
LoopContinues_Inclusive(i) == i <= MAX_ITERATIONS

\* for (let iter = 0; iter < MAX_ITERATIONS; iter++)
LoopContinues(i) == i < MAX_ITERATIONS

\* Variant: iteration: iter.
RequestIteration_ZeroBased(i) == i

\* iteration: iter + 1
RequestIteration(i) == i + 1


\* Variant: the step goes on with the list of the step before it.
NewCommands_CarriedOver == allCommands

\* const allCommands: string[] = [] at the top of every step.
NewCommands == <<>>

\* Variant: `if (action.done)` is tested before the commands are run.
DoneCheckAt_Early(rest) == TRUE

\* `if (action.done)` stands after `for (const cmd of action.commands)`.
DoneCheckAt(rest) == rest = <<>>

\* Variant: the re-snapshot for the next iteration is left out.
AfterResnapshot_Skipped(n) == n

\* Not done: snapshot = await getSnapshot(); no command was sent since.
AfterResnapshot(n) == 0

\* `if (cmd === "__SNAPSHOT__")` never holds: every command is dispatched.
IsSentinel_Never(c) == FALSE

\* if (cmd === "__SNAPSHOT__")
IsSentinel(c) == c = SNAPSHOT

\* allCommands.push(cmd) only for a command whose result has success.
Executed_SuccessOnly(cmds, c, success) ==
  IF success THEN Append(cmds, c) ELSE cmds

\* allCommands.push(cmd), whatever the result.
Executed(cmds, c, success) == Append(cmds, c)

\* stepStatus after the screenshot try/catch if its failure made the step
\* an error.
AfterScreenshot_FailureIsError(status, ok) ==
  IF ok THEN status ELSE "error"

\* stepStatus after the screenshot try/catch: not assigned there.
AfterScreenshot(status, ok) == status

\* Variant: a command that reports failure makes the step an error.
AfterCommand_FailureIsError(status, success) ==
  IF success THEN status ELSE "error"

\* if (!result.success) console.log(stderr): the step's status after a
\* command is what it was before, whatever the result says.
AfterCommand(status, success) == status

\* Variant: a skipped step gets a status of its own.
DoneStatus_Skipped(a) ==
  IF a.success THEN "pass"
  ELSE IF a.actual_result = "Step skipped" THEN "skipped"
  ELSE "fail"

\* stepStatus = action.success ? "pass" : "fail"
DoneStatus(a) == IF a.success THEN "pass" ELSE "fail"

\* Variant: the result takes the place of the last one.
Pushed_Overwrite(results, r) ==
  IF results = <<>> THEN <<r>> ELSE [results EXCEPT ![Len(results)] = r]

\* stepResults.push({...})
Pushed(results, r) == Append(results, r)

\* Variant: break on any status but pass.
AbortsCase_OnFail(status) == status # "pass"

\* if (stepStatus === "error") break
AbortsCase(status) == status = "error"

\* Variant: the catch records a judged failure.
CatchStatus_Fail == "fail"

\* catch (err) { stepStatus = "error"; actualResult = `Error: ...` }
CatchStatus == "error"

\* -------------------------------------------------------------------- Init
\* No call of callApi is under way.
NoResult == [kind |-> "none", text |-> ""]
RetryIdle ==
  /\ provider = "anthropic"
  /\ attempt = 0
  /\ rpc = "idle"
  /\ lastError = ""
  /\ waitSec = 0
  /\ waits = <<>>
  /\ seen = <<>>
  /\ result = NoResult

\* No request has been made of the adapter.
NoRequest == [step |-> 0, iteration |-> 0, previousActions |-> <<>>]
AdapterIdle ==
  /\ conversationHistory = <<>>
  /\ request = NoRequest
  /\ apc = "idle"
  /\ messages = <<>>
  /\ contents = <<>>
  /\ answered = 0

\* No text has been given to parseAgentResponse.
NoParsed ==
  [thought |-> "", commands |-> <<>>, done |-> FALSE, success |-> FALSE,
   actual_result |-> ""]
ParseIdle ==
  /\ raw = <<>>
  /\ parsed = NoParsed
  /\ ppc = "idle"

\* No command string has been given to parseCommand.
CmdIdle ==
  /\ cmd = <<>>
  /\ args = <<>>
  /\ again = <<>>
  /\ settled = FALSE
  /\ cpc = "idle"

\* No AgentAction returned yet.
NoResponse ==
  [thought |-> "", commands |-> <<>>, done |-> FALSE, success |-> FALSE,
   actual_result |-> ""]

\* The interactive adapter is not asked.
InteractiveIdle ==
  /\ ipc = "idle"
  /\ iCommands = <<>>
  /\ iDone = FALSE
  /\ iSuccess = FALSE
  /\ iActual = ""
  /\ typed = <<>>
  /\ response = NoResponse
  /\ iStatus = "pass"
  /\ iOverall = "pass"

\* main has not reached its loop.
MainIdle ==
  /\ mpc = "idle"
  /\ caseIdx = 0
  /\ setupOk = TRUE
  /\ caseStep = 0
  /\ caseIter = 0
  /\ snapshotOf = 0
  /\ caseResults = <<>>
  /\ reports = <<>>
  /\ session = 0
  /\ closes = <<>>
  /\ fatal = <<>>
  /\ exitCode = 0

\* runTestCase is entered.
RunnerInit ==
  /\ pc = "setup"
  /\ stepIdx = 1
  /\ iter = 0
  /\ allCommands = <<>>
  /\ stepStatus = "pass"
  /\ actualResult = ""
  /\ action = NoAction
  /\ todo = <<>>
  /\ captured = "none"
  /\ stepResults = <<>>
  /\ overallStatus = "pass"
  /\ report = NoReport
  /\ calls = 0
  /\ reqIter = 0
  /\ sent = <<>>
  /\ raised = NoError
  /\ cmdFailed = FALSE
  /\ shots = <<>>
  /\ sinceCapture = 0

Init ==
  /\ RunnerInit /\ RetryIdle /\ AdapterIdle /\ ParseIdle /\ CmdIdle
  /\ MainIdle /\ InteractiveIdle

\* ----------------------------------------------------------------- actions
\* await openUrl(testCase.target_url); await waitForNetworkIdle();
\* Both return a BrowserCommandResult that is not looked at.
Setup ==
  /\ pc = "setup"
  /\ \E ok \in BOOLEAN : pc' = "loop"
  /\ UNCHANGED <<stepIdx, iter, allCommands, stepStatus, actualResult, action,
                 todo, captured, stepResults, overallStatus, report, calls,
                 reqIter, sent, raised,
                 cmdFailed, shots, sinceCapture>>
  /\ UNCHANGED besidesRunner

\* Top of `for (const step of testCase.steps)`: the step's locals are
\* created and the first observation is captured.
BeginStep ==
  /\ pc = "loop"
  /\ \E ok \in BOOLEAN : captured' = CaptureOutcome(ok)
  /\ allCommands' = NewCommands
  /\ stepStatus' = "pass"
  /\ actualResult' = ""
  /\ action' = NoAction
  /\ todo' = <<>>
  /\ iter' = 0
  /\ calls' = 0
  /\ reqIter' = 0
  /\ sent' = <<>>
  /\ raised' = NoError
  /\ cmdFailed' = FALSE
  /\ shots' = <<>>
  /\ sinceCapture' = 0
  /\ pc' = "decide"
  /\ UNCHANGED <<stepIdx, stepResults, overallStatus, report>>
  /\ UNCHANGED besidesRunner

\* const action = await adapter.decideAction(request), returning: the
\* action is parseAgentResponse of the text the provider answered.
DecideReturns ==
  /\ pc = "decide"
  /\ LET Answer(text) ==
           LET a == parseAgentResponse(text)
           IN  /\ action' = WithoutCommands(a)
               /\ todo' = a.commands
     IN  \/ \E cmds \in SeqUpTo(CommandValues, MaxCmds - CaseSent),
               d \in BOOLEAN, ok \in BOOLEAN, actual \in ActualTexts :
               Answer(JsonText(cmds, d, ok, actual))
         \/ Answer(NotJsonText)
  /\ calls' = calls + 1
  /\ reqIter' = RequestIteration(iter)
  /\ pc' = "dispatch"
  /\ UNCHANGED <<stepIdx, iter, allCommands, stepStatus, actualResult,
                 captured, stepResults, overallStatus, report, sent, raised,
                 cmdFailed, shots, sinceCapture>>
  /\ UNCHANGED besidesRunner

\* decideAction throws (callApi: retries exhausted, fatal status, unexpected
\* structure); the step's catch takes it.
DecideThrows ==
  /\ pc = "decide"
  /\ \E msg \in DecideErrors :
       /\ actualResult' = ErrorText(msg)
       /\ raised' = [at |-> "decide", message |-> msg]
  /\ stepStatus' = CatchStatus
  /\ calls' = calls + 1
  /\ reqIter' = RequestIteration(iter)
  /\ pc' = "screenshot"
  /\ UNCHANGED <<stepIdx, iter, allCommands, action, todo, captured,
                 stepResults, overallStatus, report, sent,
                 cmdFailed, shots, sinceCapture>>
  /\ UNCHANGED besidesRunner

\* One turn of `for (const cmd of action.commands)` on the sentinel:
\* re-snapshot, continue.
DispatchSnapshot ==
  /\ pc = "dispatch"
  /\ todo # <<>>
  /\ IsSentinel(Head(todo))
  /\ \E ok \in BOOLEAN : captured' = CaptureOutcome(ok)
  /\ sinceCapture' = 0
  /\ todo' = Tail(todo)
  /\ UNCHANGED <<pc, stepIdx, iter, allCommands, stepStatus, actualResult,
                 action, stepResults, overallStatus, report, calls, reqIter,
                 sent, raised,
                 cmdFailed, shots>>
  /\ UNCHANGED besidesRunner

\* One turn on a command string: parseCommand, runBrowserCommand, push; the
\* result's success flag is only logged.
DispatchCommand ==
  /\ pc = "dispatch"
  /\ todo # <<>>
  /\ ~IsSentinel(Head(todo))
  /\ IsString(Head(todo))
  /\ \E success \in BOOLEAN :
       /\ stepStatus' = AfterCommand(stepStatus, success)
       /\ cmdFailed' = (cmdFailed \/ ~success)
       /\ allCommands' = Executed(allCommands, Head(todo), success)
  /\ sent' = Append(sent, Head(todo))
  /\ sinceCapture' = sinceCapture + 1
  /\ todo' = Tail(todo)
  /\ UNCHANGED <<pc, stepIdx, iter, actualResult, action,
                 captured, stepResults, overallStatus, report, calls, reqIter,
                 raised, shots>>
  /\ UNCHANGED besidesRunner

\* One turn on a command that is not a string.  null: parseCommand reads
\* cmd.length and throws before anything is sent.  A number: parseCommand
\* returns [], the browser is run and the command pushed, then
\* cmd.startsWith throws.  The step's catch takes either.
DispatchThrows ==
  /\ pc = "dispatch"
  /\ todo # <<>>
  /\ ~IsString(Head(todo))
  /\ IF Head(todo) = JsonNull
       THEN /\ actualResult' = ErrorText(NullError)
            /\ raised' = [at |-> "dispatch", message |-> NullError]
            /\ UNCHANGED <<sent, allCommands, sinceCapture>>
       ELSE /\ actualResult' = ErrorText(StartsWithError)
            /\ raised' = [at |-> "dispatch", message |-> StartsWithError]
            /\ sent' = Append(sent, Head(todo))
            /\ allCommands' = Append(allCommands, Head(todo))
            /\ sinceCapture' = sinceCapture + 1
  /\ stepStatus' = CatchStatus
  /\ todo' = <<>>
  /\ pc' = "screenshot"
  /\ UNCHANGED <<stepIdx, iter, action, captured, stepResults, overallStatus,
                 report, calls, reqIter,
                 cmdFailed, shots>>
  /\ UNCHANGED besidesRunner

\* After the last command, `if (action.done)`: verdict and break, then the
\* check after the loop.
CheckDone ==
  /\ pc = "dispatch"
  /\ DoneCheckAt(todo)
  /\ action.done
  /\ LET r == TimeoutCheck(DoneStatus(action), action.actual_result)
     IN /\ stepStatus' = r.status
        /\ actualResult' = r.actual
  /\ pc' = "screenshot"
  /\ UNCHANGED <<stepIdx, iter, allCommands, action, todo, captured,
                 stepResults, overallStatus, report, calls, reqIter, sent,
                 raised,
                 cmdFailed, shots, sinceCapture>>
  /\ UNCHANGED besidesRunner

\* Not done: re-snapshot for the next iteration, iter++ (the action goes out
\* of scope); when the loop is exhausted, the check after the loop.
NextIteration ==
  /\ pc = "dispatch"
  /\ todo = <<>>
  /\ ~action.done
  /\ \E ok \in BOOLEAN : captured' = CaptureOutcome(ok)
  /\ sinceCapture' = AfterResnapshot(sinceCapture)
  /\ iter' = iter + 1
  /\ action' = NoAction
  /\ IF LoopContinues(iter + 1)
       THEN /\ pc' = "decide"
            /\ UNCHANGED <<stepStatus, actualResult>>
       ELSE /\ pc' = "screenshot"
            /\ LET r == TimeoutCheck(stepStatus, actualResult)
               IN /\ stepStatus' = r.status
                  /\ actualResult' = r.actual
  /\ UNCHANGED <<stepIdx, allCommands, todo, stepResults, overallStatus,
                 report, calls, reqIter, sent, raised,
                 cmdFailed, shots>>
  /\ UNCHANGED besidesRunner

\* takeStepScreenshot: screenshot() returns a result that is not looked at,
\* so the path is set whether or not the file was written; the catch of
\* the try around it only logs.
Screenshot ==
  /\ pc = "screenshot"
  /\ \E ok \in BOOLEAN :
       /\ shots' = Append(shots, CaptureOutcome(ok))
       /\ stepStatus' = AfterScreenshot(stepStatus, ok)
  /\ pc' = "push"
  /\ UNCHANGED <<stepIdx, iter, allCommands, actualResult, action,
                 todo, captured, stepResults, overallStatus, report, calls,
                 reqIter, sent, raised,
                 cmdFailed, sinceCapture>>
  /\ UNCHANGED besidesRunner

\* overallStatus update, stepResults.push, abort on error, next step.
PushResult ==
  /\ pc = "push"
  /\ overallStatus' = NextOverall(overallStatus, stepStatus)
  /\ stepResults' = Pushed(stepResults,
       [step |-> Steps[stepIdx].step, status |-> stepStatus,
        actual |-> actualResult, commands_executed |-> allCommands])
  /\ IF AbortsCase(stepStatus) \/ stepIdx = NumSteps
       THEN pc' = "report" /\ UNCHANGED stepIdx
       ELSE pc' = "loop" /\ stepIdx' = stepIdx + 1
  /\ UNCHANGED <<iter, allCommands, stepStatus, actualResult, action, todo,
                 captured, report, calls, reqIter, sent, raised,
                 cmdFailed, shots, sinceCapture>>
  /\ UNCHANGED besidesRunner

\* const report: TestReport = {...}; return report
Report ==
  /\ pc = "report"
  /\ report' = [status |-> overallStatus, steps |-> stepResults,
                passed |-> Cardinality({i \in DOMAIN stepResults :
                                          stepResults[i].status = "pass"})]
  /\ pc' = "done"
  /\ UNCHANGED <<stepIdx, iter, allCommands, stepStatus, actualResult, action,
                 todo, captured, stepResults, overallStatus, calls, reqIter,
                 sent, raised,
                 cmdFailed, shots, sinceCapture>>
  /\ UNCHANGED besidesRunner

Next ==
  \/ Setup
  \/ BeginStep
  \/ DecideReturns
  \/ DecideThrows
  \/ DispatchSnapshot
  \/ DispatchCommand
  \/ DispatchThrows
  \/ CheckDone
  \/ NextIteration
  \/ Screenshot
  \/ PushResult
  \/ Report

Spec == Init /\ [][Next]_vars


\* =============================================== callApi: the retry policy
\* const MAX_RETRIES = 3;
MAX_RETRIES == 3

Providers == {"anthropic", "github"}

\* A header: absent (headers.get returns null) or a text, kept as its
\* characters.  The Headers API strips surrounding whitespace.
NoHeader == [present |-> FALSE, chars |-> <<>>]
Header(cs) == [present |-> TRUE, chars |-> cs]
RetryAfterTexts ==
  { <<>>, <<"1">>, <<"5">>, <<"6", "0">>, <<"6", "1">>, <<"0">>,
    <<"-", "3">>, <<"+", "4">>, <<"a", "b", "c">>, <<"7", "s">>,
    <<"2", ".", "5">> }
RetryAfterHeaders == {NoHeader} \cup {Header(cs) : cs \in RetryAfterTexts}

\* The text block of a response body: absent, empty or a payload.
NoBlock == [block |-> FALSE, text |-> ""]
Payload == "{\"done\": true}"
Bodies == {NoBlock, [block |-> TRUE, text |-> ""],
           [block |-> TRUE, text |-> Payload]}

\* What one fetch produces.  Status 0 stands for a fetch that rejects
\* (no response at all).
Response(st, h, b) == [status |-> st, retryAfter |-> h, body |-> b]
FetchRejected == Response(0, NoHeader, NoBlock)
Responses ==
  {Response(429, h, NoBlock) : h \in RetryAfterHeaders}
    \cup {Response(529, h, NoBlock) : h \in {NoHeader, Header(<<"5">>)}}
    \cup {Response(st, NoHeader, NoBlock) : st \in {401, 500}}
    \cup {Response(200, NoHeader, b) : b \in Bodies}
    \cup {FetchRejected}

\* parseInt(text, 10): an optional sign, then the longest run of decimal
\* digits; NaN when there is no digit there.  What follows the digits is
\* dropped.
DigitValue ==
  ("0" :> 0) @@ ("1" :> 1) @@ ("2" :> 2) @@ ("3" :> 3) @@ ("4" :> 4) @@
  ("5" :> 5) @@ ("6" :> 6) @@ ("7" :> 7) @@ ("8" :> 8) @@ ("9" :> 9)
IsDigit(c) == c \in DOMAIN DigitValue
NaN == [nan |-> TRUE, n |-> 0]
RECURSIVE DigitsValue(_, _)
DigitsValue(cs, acc) ==
  IF cs = <<>> \/ ~IsDigit(Head(cs)) THEN acc
  ELSE DigitsValue(Tail(cs), 10 * acc + DigitValue[Head(cs)])
parseInt(cs) ==
  LET signed == cs # <<>> /\ Head(cs) \in {"-", "+"}
      digits == IF signed THEN Tail(cs) ELSE cs
      value  == DigitsValue(digits, 0)
  IN  IF digits = <<>> \/ ~IsDigit(Head(digits)) THEN NaN
      ELSE [nan |-> FALSE,
            n   |-> IF signed /\ Head(cs) = "-" THEN 0 - value ELSE value]

Min(a, b) == IF a <= b THEN a ELSE b

\* const parsedWait = retryAfter ? parseInt(retryAfter, 10) : NaN;
\* waitSec = !isNaN(parsedWait) && parsedWait > 0 && parsedWait <= 60
\*             ? parsedWait : Math.min(10 * (attempt + 1), 30);
RateLimitWait(h, a) ==
  LET parsedWait == IF h.present /\ h.chars # <<>> THEN parseInt(h.chars)
                    ELSE NaN
  IN  IF ~parsedWait.nan /\ parsedWait.n > 0 /\ parsedWait.n <= 60
        THEN parsedWait.n
        ELSE Min(10 * (a + 1), 30)

\* const waitSec = Math.min(15 * (attempt + 1), 45);
OverloadWait(a) == Min(15 * (a + 1), 45)

\* if (response.status === 429)
IsRateLimit(st) == st = 429

\* Variant: every server error is taken for an overload.
IsOverload_AnyServerError(p, st) == st >= 500

\* if (response.status === 529): a branch of the Anthropic adapter only.
IsOverload(p, st) == p = "anthropic" /\ st = 529

\* response.ok
IsOk(st) == st \in 200..299

\* new Error(`Rate limited (429)`), new Error(`Anthropic overloaded (529)`)
TransientError(st) ==
  IF st = 429 THEN "Rate limited (429)" ELSE "Anthropic overloaded (529)"

\* new Error(`Anthropic API error ${response.status}: ...`),
\* new Error(`GitHub Models API error ${response.status}: ...`)
ApiError(p, st) ==
  (IF p = "anthropic" THEN "Anthropic API error "
   ELSE "GitHub Models API error ") \o ToString(st)

\* new Error(`Unexpected Anthropic response structure: ...`),
\* new Error(`Unexpected API response structure: ...`)
StructureError(p) ==
  IF p = "anthropic" THEN "Unexpected Anthropic response structure"
  ELSE "Unexpected API response structure"

Thrown(msg) == [kind |-> "error", text |-> msg]
Returned(text) == [kind |-> "payload", text |-> text]

\* Variant: one more turn of the loop.
AttemptAllowed_OneMore(a) == a <= MAX_RETRIES + 1

\* for (let attempt = 0; attempt <= MAX_RETRIES; attempt++)
AttemptAllowed(a) == a <= MAX_RETRIES

\* Variant: the first transient error is kept.
NextLastError_KeepFirst(last, err) == IF last = "" THEN err ELSE last

\* lastError = new Error(...)
NextLastError(last, err) == err

\* The variables of the other components, which callApi leaves alone.
besidesRetry == <<adapterVars, parseVars, cmdVars, mainVars,
                  interactiveVars>>

\* callApi is entered by one of the two adapters.
InitRetry ==
  /\ RunnerInit
  /\ provider \in Providers
  /\ attempt = 0
  /\ rpc = "fetch"
  /\ lastError = ""
  /\ waitSec = 0
  /\ waits = <<>>
  /\ seen = <<>>
  /\ result = NoResult
  /\ AdapterIdle
  /\ ParseIdle
  /\ CmdIdle
  /\ MainIdle
  /\ InteractiveIdle

\* await fetch(...) rejects: nothing in callApi catches it.
FetchRejects ==
  /\ rpc = "fetch"
  /\ seen' = Append(seen, FetchRejected)
  /\ rpc' = "thrown"
  /\ result' = Thrown("fetch failed")
  /\ UNCHANGED <<provider, attempt, lastError, waitSec, waits>>
  /\ UNCHANGED <<runnerVars, besidesRetry>>

\* status 429: the wait is computed from the retry-after header.
RateLimited ==
  /\ rpc = "fetch"
  /\ \E r \in Responses :
       /\ IsRateLimit(r.status)
       /\ seen' = Append(seen, r)
       /\ waitSec' = RateLimitWait(r.retryAfter, attempt)
  /\ rpc' = "sleep"
  /\ UNCHANGED <<provider, attempt, lastError, waits, result>>
  /\ UNCHANGED <<runnerVars, besidesRetry>>

\* status 529 in the Anthropic adapter.
Overloaded ==
  /\ rpc = "fetch"
  /\ \E r \in Responses :
       /\ ~IsRateLimit(r.status)
       /\ IsOverload(provider, r.status)
       /\ seen' = Append(seen, r)
       /\ waitSec' = OverloadWait(attempt)
  /\ rpc' = "sleep"
  /\ UNCHANGED <<provider, attempt, lastError, waits, result>>
  /\ UNCHANGED <<runnerVars, besidesRetry>>

\* await new Promise((r) => setTimeout(r, waitSec * 1000));
\* lastError = new Error(...); continue;  and, when the loop is left,
\* throw lastError || new Error("Max retries exceeded").
Sleep ==
  /\ rpc = "sleep"
  /\ waits' = Append(waits, waitSec)
  /\ lastError' = NextLastError(lastError,
                                TransientError(seen[Len(seen)].status))
  /\ attempt' = attempt + 1
  /\ IF AttemptAllowed(attempt')
       THEN rpc' = "fetch" /\ result' = result
       ELSE /\ rpc' = "thrown"
            /\ result' = Thrown(IF lastError' # "" THEN lastError'
                                ELSE "Max retries exceeded")
  /\ UNCHANGED <<provider, waitSec, seen>>
  /\ UNCHANGED <<runnerVars, besidesRetry>>

\* if (!response.ok) throw new Error(`... API error ${response.status}`)
NotOk ==
  /\ rpc = "fetch"
  /\ \E r \in Responses :
       /\ r # FetchRejected
       /\ ~IsRateLimit(r.status)
       /\ ~IsOverload(provider, r.status)
       /\ ~IsOk(r.status)
       /\ seen' = Append(seen, r)
       /\ result' = Thrown(ApiError(provider, r.status))
  /\ rpc' = "thrown"
  /\ UNCHANGED <<provider, attempt, lastError, waitSec, waits>>
  /\ UNCHANGED <<runnerVars, besidesRetry>>

\* A success response: its text is returned; without a text block, or with
\* an empty text, the call throws.
Ok ==
  /\ rpc = "fetch"
  /\ \E r \in Responses :
       /\ r # FetchRejected
       /\ ~IsRateLimit(r.status)
       /\ ~IsOverload(provider, r.status)
       /\ IsOk(r.status)
       /\ seen' = Append(seen, r)
       /\ IF r.body.block /\ r.body.text # ""
            THEN rpc' = "returned" /\ result' = Returned(r.body.text)
            ELSE rpc' = "thrown" /\ result' = Thrown(StructureError(provider))
  /\ UNCHANGED <<provider, attempt, lastError, waitSec, waits>>
  /\ UNCHANGED <<runnerVars, besidesRetry>>

NextRetry ==
  \/ FetchRejects
  \/ RateLimited
  \/ Overloaded
  \/ Sleep
  \/ NotOk
  \/ Ok

SpecRetry == InitRetry /\ [][NextRetry]_vars


\* ================================== decideAction: the conversation history
\* A turn of the conversation: who speaks, and the step and iteration of the
\* request it belongs to.
Turn(role, req) == [role |-> role, step |-> req.step, iteration |-> req.iteration]

\* if (request.previousActions.length === 0) this.conversationHistory = [];
ResetsHistory(req) == Len(req.previousActions) = 0

\* buildUserMessage(request)
UserMessage == <<TEXT, NL, TEXT>>

\* What callApi returns: a JSON object text, or a text that is not JSON.
ResponseTexts == {JsonText(<<>>, FALSE, FALSE, ""), NotJsonText}

\* Variant: the turns are pushed only when the response text parses.
PushedContents_ParsedOnly(cs, text) ==
  IF parseAgentResponse(text) = ParseFailure THEN cs
  ELSE cs \o <<UserMessage, text>>

\* this.conversationHistory.push({role: "user", content: userMessage},
\* {role: "assistant", content: response}), before the text is parsed.
PushedContents(cs, text) == cs \o <<UserMessage, text>>

\* The variables of the other components, which decideAction leaves alone.
besidesAdapter == <<retryVars, parseVars, cmdVars, mainVars,
                  interactiveVars>>

\* The adapter is constructed; runTestCase builds the first request of the
\* first step: previousActions is the step's new, empty allCommands.
InitAdapter ==
  /\ RunnerInit
  /\ RetryIdle
  /\ conversationHistory = <<>>
  /\ request = [step |-> 1, iteration |-> 1, previousActions |-> <<>>]
  /\ apc = "decide"
  /\ messages = <<>>
  /\ contents = <<>>
  /\ answered = 0
  /\ ParseIdle
  /\ CmdIdle
  /\ MainIdle
  /\ InteractiveIdle

\* decideAction up to its await: the reset, the user message, the turns
\* handed to callApi.
DecideEnter ==
  /\ apc = "decide"
  /\ conversationHistory' =
       IF ResetsHistory(request) THEN <<>> ELSE conversationHistory
  /\ contents' = IF ResetsHistory(request) THEN <<>> ELSE contents
  /\ answered' = IF ResetsHistory(request) THEN 0 ELSE answered
  /\ messages' = Append(conversationHistory', Turn("user", request))
  /\ apc' = "call"
  /\ UNCHANGED request
  /\ UNCHANGED <<runnerVars, besidesAdapter>>

\* callApi returns the response text: both turns are pushed, the text is
\* parsed and the action returned.
CallApiReturns ==
  /\ apc = "call"
  /\ conversationHistory' =
       conversationHistory \o
         <<Turn("user", request), Turn("assistant", request)>>
  /\ \E text \in ResponseTexts : contents' = PushedContents(contents, text)
  /\ answered' = answered + 1
  /\ apc' = "returned"
  /\ UNCHANGED <<request, messages>>
  /\ UNCHANGED <<runnerVars, besidesAdapter>>

\* callApi throws: decideAction throws, the step's catch takes it and the
\* case is aborted.
CallApiThrows ==
  /\ apc = "call"
  /\ apc' = "done"
  /\ UNCHANGED <<conversationHistory, request, messages, contents,
                 answered>>
  /\ UNCHANGED <<runnerVars, besidesAdapter>>

\* runTestCase after an action that is not done: the commands it dispatched
\* are pushed onto allCommands and the next iteration's request is built.
RunnerContinues ==
  /\ apc = "returned"
  /\ request.iteration < MAX_ITERATIONS
  /\ \E cmds \in SeqUpTo({ClickCmd}, MaxCmds - Len(request.previousActions)) :
       request' = [step |-> request.step,
                   iteration |-> request.iteration + 1,
                   previousActions |-> request.previousActions \o cmds]
  /\ apc' = "decide"
  /\ UNCHANGED <<conversationHistory, messages, contents, answered>>
  /\ UNCHANGED <<runnerVars, besidesAdapter>>

\* runTestCase after an action that is done, or after the last iteration:
\* the step ends and the next step, if there is one, starts with a new
\* allCommands.
RunnerNextStep ==
  /\ apc = "returned"
  /\ \E done \in BOOLEAN : done \/ request.iteration = MAX_ITERATIONS
  /\ IF request.step < NumSteps
       THEN /\ request' = [step |-> request.step + 1, iteration |-> 1,
                           previousActions |-> <<>>]
            /\ apc' = "decide"
       ELSE /\ request' = request
            /\ apc' = "done"
  /\ UNCHANGED <<conversationHistory, messages, contents, answered>>
  /\ UNCHANGED <<runnerVars, besidesAdapter>>

NextAdapter ==
  \/ DecideEnter
  \/ CallApiReturns
  \/ CallApiThrows
  \/ RunnerContinues
  \/ RunnerNextStep

SpecAdapter == InitAdapter /\ [][NextAdapter]_vars


\* ============================== parseAgentResponse on one response text
\* The values a property of the response object is drawn from.
ThoughtValues == {JUndefined, JString("t")}
CommandsValues ==
  {JUndefined, JNull, JString(ClickCmd), JNumber("5"), JObject, JTrue,
   JArray(<<>>), JArray(<<ClickCmd>>), JArray(<<JsonNumber>>)}
DoneValues ==
  {JUndefined, JNull, JTrue, JFalse, JString(""), JString("false"),
   JString("true"), JNumber("0"), JNumber("1"), JObject, JArray(<<>>)}
SuccessValues == {JUndefined, JTrue, JFalse, JString("false")}
ActualValues ==
  {JUndefined, JNull, JString(""), JString("observed"), JNumber("5")}

\* What stands between the fences, or alone, when it is not a JSON object:
\* a JSON value of another type, a text that is not JSON, or nothing.
OtherBodies ==
  {<<DocTok(Doc(t, NoFields))>> : t \in {"null", "number", "string", "array"}}
    \cup {<<TEXT>>, <<>>}

\* A body bare, padded, or in a code fence of one of the shapes a model
\* answers with.
WrapKinds ==
  {"bare", "padded", "json fence", "plain fence", "tight fence",
   "padded fence", "open fence", "other fence", "prose before fence"}
Wrap(kind, body) ==
  CASE kind = "bare" -> body
    [] kind = "padded" -> <<SP>> \o body \o <<NL>>
    [] kind = "json fence" -> <<FENCE, JSONTAG, NL>> \o body \o <<NL, FENCE>>
    [] kind = "plain fence" -> <<FENCE, NL>> \o body \o <<NL, FENCE>>
    [] kind = "tight fence" -> <<FENCE, JSONTAG>> \o body \o <<FENCE>>
    [] kind = "padded fence" ->
         <<NL, FENCE, JSONTAG, NL>> \o body \o <<NL, FENCE, NL>>
    [] kind = "open fence" -> <<FENCE, JSONTAG, NL>> \o body
    [] kind = "other fence" -> <<FENCE, TEXT, NL>> \o body \o <<NL, FENCE>>
    [] OTHER -> <<TEXT, NL, FENCE, JSONTAG, NL>> \o body \o <<NL, FENCE>>

\* The variables of the other components, which the parser leaves alone.
besidesParse == <<retryVars, adapterVars, cmdVars, mainVars,
                  interactiveVars>>

\* parseAgentResponse is given a response text.
InitParse ==
  /\ RunnerInit
  /\ MainIdle
  /\ InteractiveIdle
  /\ RetryIdle
  /\ AdapterIdle
  /\ CmdIdle
  /\ \E kind \in WrapKinds :
       \/ \E th \in ThoughtValues, c \in CommandsValues, d \in DoneValues,
             ok \in SuccessValues, ar \in ActualValues :
             raw = Wrap(kind, <<DocTok(ObjectDoc(th, c, d, ok, ar))>>)
       \/ \E body \in OtherBodies : raw = Wrap(kind, body)
  /\ parsed = NoParsed
  /\ ppc = "raw"

\* parseAgentResponse(raw) returns.
ParseResponse ==
  /\ ppc = "raw"
  /\ parsed' = parseAgentResponse(raw)
  /\ ppc' = "parsed"
  /\ UNCHANGED raw
  /\ UNCHANGED <<runnerVars, besidesParse>>

NextParse == ParseResponse

SpecParse == InitParse /\ [][NextParse]_vars


\* ======================================= parseCommand on one command string
\* --------------------------------------------------------------- bounds
\* Longest command string drawn from CmdChars.
MaxLen == 5

\* The characters command strings are drawn from: a letter, a blank, a tab
\* and the two quote characters.
CmdChars == {"a", " ", "\t", "\"", "'"}

\* The command strings of parseCommand's doc comment.
FillHelloWorld ==
  <<"f", "i", "l", "l", " ", "@", "e", "2", " ", "\"", "h", "e", "l", "l",
    "o", " ", "w", "o", "r", "l", "d", "\"">>
ClickE3 ==
  <<"c", "l", "i", "c", "k", " ", "@", "e", "3">>
FillSomeValue ==
  <<"f", "i", "l", "l", " ", "@", "e", "2", " ", "'", "s", "o", "m", "e",
    " ", "\"", "v", "a", "l", "u", "e", "\"", "'">>

\* Command strings a response can carry (action.commands is passed on as
\* parsed): a click after a blank, a click whose verb is quoted, and a verb
\* that only begins like one of the four.
Click == <<"c", "l", "i", "c", "k">>
BlankClickE3 == <<" ">> \o ClickE3
QuotedClickE3 == <<"\"">> \o Click \o <<"\"", " ", "@", "e", "3">>
ClickerE3 == Click \o <<"e", "r", " ", "@", "e", "3">>
PressEnter == <<"p", "r", "e", "s", "s", " ", "E", "n", "t", "e", "r">>
WaitCmd == <<"w", "a", "i", "t", " ", "1", "5", "0", "0">>
FillEmpty == <<"f", "i", "l", "l", " ", "@", "e", "2", " ", "\"", "\"">>
Examples == {FillHelloWorld, ClickE3, FillSomeValue, BlankClickE3,
             QuotedClickE3, ClickerE3, PressEnter, WaitCmd, FillEmpty}

\* ["click", "fill", "select", "press"]
SettleVerbs == {Click, <<"f", "i", "l", "l">>,
                <<"s", "e", "l", "e", "c", "t">>,
                <<"p", "r", "e", "s", "s">>}

\* cmd.startsWith(c)
StartsWith(cs, c) == Len(cs) >= Len(c) /\ SubSeq(cs, 1, Len(c)) = c

\* ["click", "fill", "select", "press"].some((c) => cmd.startsWith(c))
SettleAfter(cs) == \E c \in SettleVerbs : StartsWith(cs, c)

\* ch === '"' || ch === "'"
IsQuote(ch) == ch \in {"\"", "'"}

\* Variant: only the blank separates tokens.
IsSpace_BlankOnly(ch) == ch = " "

\* /\s/.test(ch)
IsSpace(ch) == ch \in {" ", "\t", "\n", "\r"}

\* Variant: either quote character closes a quoted section.
ClosesQuote_EitherStyle(ch, inQuote) == IsQuote(ch)

\* if (ch === inQuote)
ClosesQuote(ch, inQuote) == ch = inQuote

\* Whitespace outside quotes: if (current.length > 0) args.push(current)
PushToken(parts, current) ==
  IF Len(current) > 0 THEN Append(parts, current) ELSE parts

\* Variant: the last token is not pushed.
PushLast_Dropped(parts, current) == parts

\* After the loop: if (current.length > 0) args.push(current)
PushLast(parts, current) ==
  IF Len(current) > 0 THEN Append(parts, current) ELSE parts

\* The for loop of parseCommand from character i on; inQuote is "" for null.
RECURSIVE Scan(_, _, _, _, _)
Scan(cs, i, parts, current, inQuote) ==
  IF i > Len(cs) THEN PushLast(parts, current)
  ELSE LET ch == cs[i] IN
    IF inQuote # ""
      THEN IF ClosesQuote(ch, inQuote)
             THEN Scan(cs, i + 1, parts, current, "")
             ELSE Scan(cs, i + 1, parts, Append(current, ch), inQuote)
    ELSE IF IsQuote(ch)
      THEN Scan(cs, i + 1, parts, current, ch)
    ELSE IF IsSpace(ch)
      THEN Scan(cs, i + 1, PushToken(parts, current),
                IF Len(current) > 0 THEN <<>> ELSE current, inQuote)
    ELSE Scan(cs, i + 1, parts, Append(current, ch), inQuote)

\* parseCommand(cmd)
parseCommand(cs) == Scan(cs, 1, <<>>, <<>>, "")

\* tokens.join(" ")
RECURSIVE Join(_)
Join(parts) ==
  IF parts = <<>> THEN <<>>
  ELSE IF Len(parts) = 1 THEN parts[1]
  ELSE parts[1] \o <<" ">> \o Join(Tail(parts))

\* The variables of the other components, which parseCommand leaves alone.
besidesCmd == <<retryVars, adapterVars, parseVars, mainVars,
                  interactiveVars>>

\* parseCommand is given a command string.
InitCmd ==
  /\ RunnerInit
  /\ MainIdle
  /\ InteractiveIdle
  /\ RetryIdle
  /\ AdapterIdle
  /\ ParseIdle
  /\ \/ cmd \in SeqUpTo(CmdChars, MaxLen)
     \/ cmd \in Examples
  /\ args = <<>>
  /\ again = <<>>
  /\ settled = FALSE
  /\ cpc = "cmd"

\* One command of the dispatch loop: parseCommand(cmd) returns its tokens,
\* which are run, and the wait follows when cmd begins with a settle verb.
ParseCommand ==
  /\ cpc = "cmd"
  /\ args' = parseCommand(cmd)
  /\ settled' = SettleAfter(cmd)
  /\ cpc' = "parsed"
  /\ UNCHANGED <<cmd, again>>
  /\ UNCHANGED <<runnerVars, besidesCmd>>

\* The tokens are joined with single blanks and parsed again.
Reparse ==
  /\ cpc = "parsed"
  /\ again' = parseCommand(Join(args))
  /\ cpc' = "reparsed"
  /\ UNCHANGED <<cmd, args, settled>>
  /\ UNCHANGED <<runnerVars, besidesCmd>>

NextCmd ==
  \/ ParseCommand
  \/ Reparse

SpecCmd == InitCmd /\ [][NextCmd]_vars


\* ===================================== main: the loop over the test files
\* ------------------------------------------------------------------ bounds
\* Number of test files of the run.
NumCases == 2

\* What a decide call of the reduced step comes to: an action that is not
\* done, one that is done with success true or false, or a throw.
DecideOutcomes == {"not done", "done pass", "done fail", "throws"}

\* Variant: a case that threw ends the loop over the test files.
NextCase_StopOnFatal(i, threw) == IF threw THEN NumCases + 1 ELSE i + 1

\* for (const testFile of testFiles): the catch is inside the loop body, so
\* the next turn is taken whether or not the case threw.
NextCase(i, threw) == i + 1

\* Variant: closeBrowser is called after a case that returned only.
ClosesAfter_ReturnOnly(threw) == ~threw

\* finally { await closeBrowser(); }
ClosesAfter(threw) == TRUE

\* if (stepStatus === "error") break, seen from the head of the loop: the
\* last outcome pushed is an error.
Aborted(results) ==
  IF results = <<>> THEN FALSE ELSE results[Len(results)] = "error"

\* Variant: the step is entered with the snapshot the step before left.
SnapshotAtStepStart_Stale(st) == st - 1

\* let snapshot = await getSnapshot(), first statement of the step's try.
SnapshotAtStepStart(st) == st

\* report.status: overallStatus after the steps that were run.
RECURSIVE OverallOf(_)
OverallOf(results) ==
  IF results = <<>> THEN "pass"
  ELSE NextOverall(OverallOf(SubSeq(results, 1, Len(results) - 1)),
                   results[Len(results)])

\* if (reports.length > 1) { ...; if (failed > 0) process.exit(1); }
\* and the process ends with status 0 otherwise.
ExitStatus(rs) ==
  LET passed == Cardinality({k \in DOMAIN rs : rs[k].status = "pass"})
      failed == Len(rs) - passed
  IN  IF Len(rs) > 1 /\ failed > 0 THEN 1 ELSE 0

\* The variables of the other components, which main leaves alone.
besidesMain == <<retryVars, adapterVars, parseVars, cmdVars,
                 interactiveVars>>

\* main has built testFiles and reaches the loop.
InitMain ==
  /\ RunnerInit
  /\ RetryIdle
  /\ AdapterIdle
  /\ ParseIdle
  /\ CmdIdle
  /\ InteractiveIdle
  /\ mpc = "next"
  /\ caseIdx = 1
  /\ setupOk = TRUE
  /\ caseStep = 0
  /\ caseIter = 0
  /\ snapshotOf = 0
  /\ caseResults = <<>>
  /\ reports = <<>>
  /\ session = 0
  /\ closes = [i \in 1..NumCases |-> 0]
  /\ fatal = [i \in 1..NumCases |-> FALSE]
  /\ exitCode = 0

\* A turn of the loop starts: runTestCase(testFile, provider) is called.
StartCase ==
  /\ mpc = "next"
  /\ caseIdx <= NumCases
  /\ mpc' = "load"
  /\ setupOk' = TRUE
  /\ caseStep' = 0
  /\ caseIter' = 0
  /\ snapshotOf' = 0
  /\ caseResults' = <<>>
  /\ UNCHANGED <<caseIdx, reports, session, closes, fatal>>
  /\ UNCHANGED <<exitCode, runnerVars, besidesMain>>

\* const testCase = loadTestCase(testFile): readFileSync or parseYaml may
\* throw.
LoadCase ==
  /\ mpc = "load"
  /\ \E ok \in BOOLEAN : mpc' = IF ok THEN "adapter" ELSE "catch"
  /\ UNCHANGED <<caseIdx, setupOk, caseStep, caseIter, snapshotOf,
                 caseResults, reports, session, closes, fatal>>
  /\ UNCHANGED <<exitCode, runnerVars, besidesMain>>

\* const adapter = createLLMAdapter(provider): the constructor throws when
\* the key is not set, the factory on an unknown provider.
CreateAdapter ==
  /\ mpc = "adapter"
  /\ \E ok \in BOOLEAN : mpc' = IF ok THEN "setup" ELSE "catch"
  /\ UNCHANGED <<caseIdx, setupOk, caseStep, caseIter, snapshotOf,
                 caseResults, reports, session, closes, fatal>>
  /\ UNCHANGED <<exitCode, runnerVars, besidesMain>>

\* await openUrl(testCase.target_url); await waitForNetworkIdle();
\* runBrowserCommand catches every failure and returns success: false; the
\* two results are not looked at.
SetupCase ==
  /\ mpc = "setup"
  /\ \E opened \in BOOLEAN, idle \in BOOLEAN : setupOk' = (opened /\ idle)
  /\ session' = caseIdx
  /\ mpc' = "steps"
  /\ UNCHANGED <<caseIdx, caseStep, caseIter, snapshotOf, caseResults,
                 reports, closes, fatal>>
  /\ UNCHANGED <<exitCode, runnerVars, besidesMain>>

\* for (const step of testCase.steps): the step is entered and the first
\* snapshot of the step is taken.
EnterStep ==
  /\ mpc = "steps"
  /\ caseStep < NumSteps
  /\ ~Aborted(caseResults)
  /\ caseStep' = caseStep + 1
  /\ caseIter' = 0
  /\ snapshotOf' = SnapshotAtStepStart(caseStep + 1)
  /\ mpc' = "decide"
  /\ UNCHANGED <<caseIdx, setupOk, caseResults, reports, session, closes,
                 fatal>>
  /\ UNCHANGED <<exitCode, runnerVars, besidesMain>>

\* One iteration of the step: decideAction, the dispatch of its commands,
\* and then the break on done, the catch, or the re-snapshot and iter++.
\* The status the step ends with is kept as the outcome to be pushed.
Iterate ==
  /\ mpc = "decide"
  /\ \E o \in DecideOutcomes :
       IF o = "not done"
         THEN /\ caseIter' = caseIter + 1
              /\ snapshotOf' = caseStep
              /\ mpc' = IF LoopContinues(caseIter + 1) THEN "decide"
                        ELSE "shot-fail"
         ELSE /\ mpc' = IF o = "throws" THEN "shot-error"
                        ELSE IF o = "done pass" THEN "shot-pass"
                        ELSE "shot-fail"
              /\ UNCHANGED <<caseIter, snapshotOf>>
  /\ UNCHANGED <<caseIdx, setupOk, caseStep, caseResults, reports, session,
                 closes, fatal>>
  /\ UNCHANGED <<exitCode, runnerVars, besidesMain>>

\* takeStepScreenshot, then stepResults.push(...).
EndStep ==
  /\ mpc \in {"shot-pass", "shot-fail", "shot-error"}
  /\ caseResults' =
       Append(caseResults,
              CASE mpc = "shot-pass" -> "pass"
                [] mpc = "shot-fail" -> "fail"
                [] OTHER -> "error")
  /\ mpc' = "steps"
  /\ UNCHANGED <<caseIdx, setupOk, caseStep, caseIter, snapshotOf, reports,
                 session, closes, fatal>>
  /\ UNCHANGED <<exitCode, runnerVars, besidesMain>>

\* The loop over the steps is left and runTestCase returns its report;
\* writeReport(report) may throw (writeFileSync), else reports.push(report).
ReturnReport ==
  /\ mpc = "steps"
  /\ (caseStep = NumSteps \/ Aborted(caseResults))
  /\ \E written \in BOOLEAN :
       IF written
         THEN /\ reports' =
                   Append(reports,
                          [test |-> caseIdx, steps |-> caseResults,
                           status |-> OverallOf(caseResults)])
              /\ mpc' = "finally"
         ELSE /\ reports' = reports
              /\ mpc' = "catch"
  /\ UNCHANGED <<caseIdx, setupOk, caseStep, caseIter, snapshotOf,
                 caseResults, session, closes, fatal>>
  /\ UNCHANGED <<exitCode, runnerVars, besidesMain>>

\* catch (err) { console.error(...) }
CatchFatal ==
  /\ mpc = "catch"
  /\ fatal' = [fatal EXCEPT ![caseIdx] = TRUE]
  /\ mpc' = "finally"
  /\ UNCHANGED <<caseIdx, setupOk, caseStep, caseIter, snapshotOf,
                 caseResults, reports, session, closes>>
  /\ UNCHANGED <<exitCode, runnerVars, besidesMain>>

\* finally { await closeBrowser(); } and the next turn of the loop.
CloseBrowser ==
  /\ mpc = "finally"
  /\ IF ClosesAfter(fatal[caseIdx])
       THEN /\ closes' = [closes EXCEPT ![caseIdx] = @ + 1]
            /\ session' = 0
       ELSE UNCHANGED <<closes, session>>
  /\ caseIdx' = NextCase(caseIdx, fatal[caseIdx])
  /\ mpc' = "next"
  /\ UNCHANGED <<setupOk, caseStep, caseIter, snapshotOf, caseResults,
                 reports, fatal>>
  /\ UNCHANGED <<exitCode, runnerVars, besidesMain>>

\* The loop is over: the summary, and main returns.
Summary ==
  /\ mpc = "next"
  /\ caseIdx > NumCases
  /\ exitCode' = ExitStatus(reports)
  /\ mpc' = "exit"
  /\ UNCHANGED <<caseIdx, setupOk, caseStep, caseIter, snapshotOf,
                 caseResults, reports, session, closes, fatal>>
  /\ UNCHANGED <<runnerVars, besidesMain>>

NextMain ==
  \/ StartCase
  \/ LoadCase
  \/ CreateAdapter
  \/ SetupCase
  \/ EnterStep
  \/ Iterate
  \/ EndStep
  \/ ReturnReport
  \/ CatchFatal
  \/ CloseBrowser
  \/ Summary

SpecMain == InitMain /\ [][NextMain]_vars

\* ============================ interactive adapter: the lines of one call
\* ------------------------------------------------------------------ bounds
\* Number of lines answered at the "> " and verdict prompts of one call.
MaxLines == 5

\* The lines a person types: nothing, blanks, the special words in several
\* spellings, a command with a blank before it, another word.
Lines == {"", "  ", "pass", "FAIL", "Skip ", "snap", " click @e1", "maybe"}

\* line.trim()
TrimLine(l) ==
  IF l = "  " THEN ""
  ELSE IF l = "Skip " THEN "Skip"
  ELSE IF l = " click @e1" THEN "click @e1"
  ELSE l

\* trimmed.toUpperCase()
Upper(l) ==
  IF l = "pass" THEN "PASS"
  ELSE IF l = "Skip" THEN "SKIP"
  ELSE IF l = "snap" THEN "SNAP"
  ELSE IF l = "click @e1" THEN "CLICK @E1"
  ELSE IF l = "maybe" THEN "MAYBE"
  ELSE l

\* request.expectedResult
ExpectedResult == "expected"

\* actual = "Step skipped"
StepSkipped == "Step skipped"

\* thought of every action the adapter returns
InteractiveThought == "Interactive mode - human/agent provided commands"

\* A line as answered at a prompt.
Typed(prompt, l) == [prompt |-> prompt, line |-> l]

\* Variant: a verdict that is not PASS, FAIL or SKIP leaves the loop.
AfterUnrecognised_Returns == "return"

\* `continue` after a verdict that is not PASS, FAIL or SKIP: back to the
\* "> " prompt.
AfterUnrecognised == "line"

\* The variables of the other components, which the adapter leaves alone.
besidesInteractive == <<retryVars, adapterVars, parseVars, cmdVars, mainVars>>

\* decideAction has printed the request and enters `while (true)`.
InitInteractive ==
  /\ RunnerInit
  /\ RetryIdle
  /\ AdapterIdle
  /\ ParseIdle
  /\ CmdIdle
  /\ MainIdle
  /\ ipc = "line"
  /\ iCommands = <<>>
  /\ iDone = FALSE
  /\ iSuccess = FALSE
  /\ iActual = ""
  /\ typed = <<>>
  /\ response = NoResponse
  /\ iStatus = "pass"
  /\ iOverall = "pass"

\* const line = await this.prompt("> ") and what the loop body does with it
\* up to its next prompt or break.
ReadLine ==
  /\ ipc = "line"
  /\ Len(typed) < MaxLines
  /\ \E l \in Lines :
       LET trimmed == TrimLine(l) IN
       /\ typed' = Append(typed, Typed("line", l))
       /\ IF trimmed = ""
            THEN /\ ipc' = "verdict"
                 /\ UNCHANGED <<iCommands, iDone, iSuccess, iActual>>
          ELSE IF Upper(trimmed) = "PASS"
            THEN /\ iDone' = TRUE
                 /\ iSuccess' = TRUE
                 /\ iActual' = ExpectedResult
                 /\ ipc' = "return"
                 /\ UNCHANGED iCommands
          ELSE IF Upper(trimmed) = "FAIL"
            THEN /\ iDone' = TRUE
                 /\ iSuccess' = FALSE
                 /\ ipc' = "what"
                 /\ UNCHANGED <<iCommands, iActual>>
          ELSE IF Upper(trimmed) = "SKIP"
            THEN /\ iDone' = TRUE
                 /\ iSuccess' = FALSE
                 /\ iActual' = StepSkipped
                 /\ ipc' = "return"
                 /\ UNCHANGED iCommands
          ELSE IF Upper(trimmed) = "SNAP"
            THEN /\ iCommands' = Append(iCommands, SNAPSHOT)
                 /\ ipc' = "line"
                 /\ UNCHANGED <<iDone, iSuccess, iActual>>
          ELSE /\ iCommands' = Append(iCommands, trimmed)
               /\ ipc' = "line"
               /\ UNCHANGED <<iDone, iSuccess, iActual>>
  /\ UNCHANGED response
  /\ UNCHANGED <<iStatus, iOverall, runnerVars, besidesInteractive>>

\* const verdict = await this.prompt("Step result? (PASS/FAIL/SKIP): ")
ReadVerdict ==
  /\ ipc = "verdict"
  /\ \E l \in Lines :
       LET v == Upper(TrimLine(l)) IN
       /\ typed' = Append(typed, Typed("verdict", l))
       /\ IF v = "PASS"
            THEN /\ iDone' = TRUE
                 /\ iSuccess' = TRUE
                 /\ ipc' = "actual"
                 /\ UNCHANGED iActual
          ELSE IF v = "FAIL"
            THEN /\ iDone' = TRUE
                 /\ iSuccess' = FALSE
                 /\ ipc' = "what"
                 /\ UNCHANGED iActual
          ELSE IF v = "SKIP"
            THEN /\ iDone' = TRUE
                 /\ iSuccess' = FALSE
                 /\ iActual' = StepSkipped
                 /\ ipc' = "return"
          ELSE /\ ipc' = AfterUnrecognised
               /\ UNCHANGED <<iDone, iSuccess, iActual>>
  /\ UNCHANGED <<iCommands, response>>
  /\ UNCHANGED <<iStatus, iOverall, runnerVars, besidesInteractive>>

\* actual = await this.prompt("Actual result (or Enter to use expected): ");
\* if (!actual.trim()) actual = request.expectedResult; break
ReadActual ==
  /\ ipc = "actual"
  /\ \E l \in Lines :
       /\ typed' = Append(typed, Typed("actual", l))
       /\ iActual' = IF TrimLine(l) = "" THEN ExpectedResult ELSE l
  /\ ipc' = "return"
  /\ UNCHANGED <<iCommands, iDone, iSuccess, response>>
  /\ UNCHANGED <<iStatus, iOverall, runnerVars, besidesInteractive>>

\* actual = await this.prompt("What actually happened? "); break
ReadWhat ==
  /\ ipc = "what"
  /\ \E l \in Lines :
       /\ typed' = Append(typed, Typed("what", l))
       /\ iActual' = l
  /\ ipc' = "return"
  /\ UNCHANGED <<iCommands, iDone, iSuccess, response>>
  /\ UNCHANGED <<iStatus, iOverall, runnerVars, besidesInteractive>>

\* return { thought, commands, done, success, actual_result: actual.trim() }
ReturnAction ==
  /\ ipc = "return"
  /\ response' = [thought |-> InteractiveThought, commands |-> iCommands,
                  done |-> iDone, success |-> iSuccess,
                  actual_result |-> TrimLine(iActual)]
  /\ ipc' = "returned"
  /\ UNCHANGED <<iCommands, iDone, iSuccess, iActual, typed>>
  /\ UNCHANGED <<iStatus, iOverall, runnerVars, besidesInteractive>>

\* runTestCase takes the action (its commands are dispatched first):
\* `if (action.done)`, the check after the loop, and overallStatus.
RunnerTakes ==
  /\ ipc = "returned"
  /\ response.done
  /\ iStatus' = TimeoutCheck(DoneStatus(response),
                             response.actual_result).status
  /\ iOverall' = NextOverall(iOverall, iStatus')
  /\ ipc' = "taken"
  /\ UNCHANGED <<iCommands, iDone, iSuccess, iActual, typed, response>>
  /\ UNCHANGED <<runnerVars, besidesInteractive>>

NextInteractive ==
  \/ ReadLine
  \/ ReadVerdict
  \/ ReadActual
  \/ ReadWhat
  \/ ReturnAction
  \/ RunnerTakes

SpecInteractive == InitInteractive /\ [][NextInteractive]_vars


\* ================================================================== claims
\* A step ends: PushResult appends its StepOutcome.
StepEnds == Len(stepResults') = Len(stepResults) + 1
\* The StepOutcome a step that ends appends.
Outcome == stepResults'[Len(stepResults')]
\* The case has ended or is between two steps.
NoStepRunning == pc \in {"setup", "loop", "report", "done"}
\* error > fail > pass over a list of StepOutcomes.
Precedence(results) ==
  IF \E i \in DOMAIN results : results[i].status = "error" THEN "error"
  ELSE IF \E i \in DOMAIN results : results[i].status = "fail" THEN "fail"
  ELSE "pass"

\* C1: a step in which every decide call returned completion = false (and
\* nothing raised) made exactly 10 decide calls, and its StepOutcome has
\* status "fail" and the timed-out-after-10-iterations text.
C1_NeverDoneTimesOut ==
  [][(StepEnds /\ raised = NoError /\ ~action.done)
       => /\ calls = 10
          /\ Outcome.status = "fail"
          /\ Outcome.actual =
               "Step timed out after 10 iterations without reaching a conclusion."
    ]_vars

\* C1 witness: a step that sent commands has timed out after 10 calls.
C1_Witness ==
  /\ pc \in {"loop", "report"}
  /\ calls = 10 /\ raised = NoError /\ ~action.done
  /\ stepResults[Len(stepResults)].status = "fail"
  /\ stepResults[Len(stepResults)].actual = TimeoutText
  /\ stepResults[Len(stepResults)].commands_executed # <<>>

\* C2 (as claimed): when decide returns completion = true, the step ends at
\* that iteration, with status "pass" if success and "fail" if not, and the
\* outcome text is the response's actual_result verbatim, the empty text
\* included.
C2_DoneVerdictVerbatim ==
  [][(StepEnds /\ raised = NoError /\ action.done)
       => /\ Outcome.status = (IF action.success THEN "pass" ELSE "fail")
          /\ Outcome.actual = action.actual_result
          /\ calls = reqIter
    ]_vars

\* The most transitions the step in progress still takes before its outcome
\* is appended: one per pending command, one for the completion check and
\* re-capture, one for the decide call of each iteration left, then the
\* screenshot and the push.
RankAtDecide(i) == 2 + (10 - i) * (MaxCmds + 2)
Rank ==
  CASE pc = "decide" -> RankAtDecide(iter)
    [] pc = "dispatch" -> Len(todo) + 1 + RankAtDecide(iter + 1)
    [] pc = "screenshot" -> 2
    [] pc = "push" -> 1
    [] OTHER -> 0

\* C3: the iteration index handed to decide is the number of the call within
\* the step (1 at the first call, one more at each next) and never above 10;
\* and a step in progress always has a next move, each move bringing its
\* outcome strictly nearer, so every started step reaches its outcome when
\* every decide call and browser command returns.
C3_BoundedIterations ==
  /\ [](reqIter = calls /\ calls <= 10)
  /\ [][calls' # calls => (calls' = calls + 1 \/ (pc = "loop" /\ calls' = 0))]_vars
  /\ [](~NoStepRunning => (Rank > 0 /\ ENABLED Next))
  /\ [][~NoStepRunning => Rank' < Rank]_vars

\* C3 witness: the tenth decide call of a step has been made.
C3_Witness == pc = "dispatch" /\ reqIter = 10 /\ calls = 10

\* C4 (as claimed): once a capture of the step has failed, decide is not
\* consulted again, the step's outcome is "error", no further step runs and
\* the case status is "error".
C4_CaptureFailureIsError ==
  [][(captured = "failed" /\ pc # "loop")
       => /\ calls' = calls
          /\ (StepEnds => /\ Outcome.status = "error"
                          /\ overallStatus' = "error"
                          /\ pc' = "report")
    ]_vars

\* C5: once decide or dispatch has raised, no decide call, browser command or
\* capture follows in the step; the StepOutcome has status "error", its text
\* carries the raised error's message, and its command list is the commands
\* sent to the browser in the step.
C5_RaiseEndsStepWithError ==
  /\ [][(raised # NoError /\ pc # "loop")
          => calls' = calls /\ sent' = sent /\ captured' = captured]_vars
  /\ [][(StepEnds /\ raised # NoError)
          => /\ Outcome.status = "error"
             /\ Outcome.actual = "Error: " \o raised.message
             /\ Outcome.commands_executed = sent]_vars

\* C5 witness: dispatch raised in the second step after a command was sent,
\* and the step is about to be recorded.
C5_Witness ==
  /\ stepIdx = 2 /\ pc = "push" /\ raised.at = "dispatch" /\ Len(sent) >= 1
  /\ stepStatus = "error"

\* C6: an "error" StepOutcome is the last one and no step is started after
\* it; without one, every step of the case is run and reported, so a "fail"
\* does not stop the case.
C6_AbortOnErrorOnly ==
  /\ \A i \in DOMAIN stepResults :
       stepResults[i].status = "error"
         => i = Len(stepResults) /\ pc \in {"report", "done"}
  /\ (pc \in {"report", "done"}
        /\ \A i \in DOMAIN stepResults : stepResults[i].status # "error")
       => Len(stepResults) = NumSteps

\* C6 witness: the case ended with a step recorded after a failed one.
C6_Witness ==
  /\ pc = "done" /\ Len(stepResults) >= 2
  /\ stepResults[1].status = "fail"

\* C7: the case status is "error" if a recorded StepOutcome is error, else
\* "fail" if one is fail, else "pass", after every step and in the report.
C7_StatusPrecedence ==
  /\ overallStatus = Precedence(stepResults)
  /\ report # NoReport => report.status = Precedence(report.steps)

\* C7 witness: a pass recorded after a fail, the report says "fail".
C7_Witness ==
  /\ report # NoReport /\ Len(stepResults) >= 2
  /\ stepResults[1].status = "fail" /\ stepResults[2].status = "pass"
  /\ report.status = "fail"

\* C8: every step that has ended has exactly one StepOutcome, at its place in
\* processing order, and an appended StepOutcome never changes.
C8_OneOutcomePerStep ==
  /\ [](/\ Len(stepResults) =
             (IF pc \in {"report", "done"} THEN stepIdx ELSE stepIdx - 1)
        /\ \A i \in DOMAIN stepResults : stepResults[i].step = Steps[i].step)
  /\ [][/\ Len(stepResults') \in {Len(stepResults), Len(stepResults) + 1}
        /\ \A i \in DOMAIN stepResults : stepResults'[i] = stepResults[i]]_vars

\* C8 witness: two outcomes recorded, the first with commands, while the
\* last step ended in error.
C8_Witness ==
  /\ pc = "report" /\ Len(stepResults) = 2
  /\ stepResults[1].commands_executed # <<>>
  /\ stepResults[2].status = "error"

\* C9 (as claimed): every step that was run has a recorded StepOutcome, and
\* every recorded StepOutcome has a non-empty observed-outcome text.
C9_OutcomeTextNonEmpty ==
  /\ pc \in {"report", "done"} => Len(stepResults) = stepIdx
  /\ \A i \in DOMAIN stepResults : stepResults[i].actual # ""

\* C10 (as claimed): a StepOutcome is "fail" only if decide returned
\* completion = true with success = false, or 10 decide calls were made and
\* none returned completion = true.
C10_FailOnlyIfJudgedOrTimeout ==
  [][(StepEnds /\ Outcome.status = "fail")
       => \/ (action.done /\ ~action.success)
          \/ (calls = 10 /\ ~action.done)
    ]_vars


\* C11: a StepOutcome is "error" only if an exception was raised in the
\* step's capture, decide or dispatch; a step in which a browser command
\* reported success = false and nothing raised does not end in "error".
C11_ErrorOnlyIfRaised ==
  [][StepEnds
       => /\ Outcome.status = "error"
               => /\ raised # NoError
                  /\ raised.at \in {"capture", "decide", "dispatch"}
          /\ (cmdFailed /\ raised = NoError) => Outcome.status # "error"
    ]_vars

\* C11 witness: a step in which a command reported failure ended in "pass".
C11_Witness ==
  /\ pc \in {"loop", "report"}
  /\ cmdFailed /\ raised = NoError /\ sent # <<>>
  /\ stepResults[Len(stepResults)].status = "pass"


\* The call has ended.
CallEnded == rpc \in {"returned", "thrown"}

\* C12: one call of callApi makes at most 4 transport attempts, whatever
\* rate-limit and overload responses it gets; when the first three attempts
\* get 429 and the fourth a success with a payload, the call returns that
\* payload and throws nothing.
C12_AtMostFourAttempts ==
  /\ Len(seen) <= 4
  /\ CallEnded => Len(seen) >= 1
  /\ ( /\ Len(seen) = 4
       /\ \A i \in 1..3 : seen[i].status = 429
       /\ seen[4].status = 200 /\ seen[4].body.block
       /\ seen[4].body.text # "" )
       => /\ rpc = "returned"
          /\ result = [kind |-> "payload", text |-> seen[4].body.text]

\* C12 witness: three 429 responses, three waits, then the payload returned.
C12_Witness ==
  /\ rpc = "returned" /\ Len(seen) = 4 /\ Len(waits) = 3
  /\ \A i \in 1..3 : seen[i].status = 429
  /\ result.kind = "payload" /\ result.text = Payload

\* C13: a response whose status is neither a success nor 429 nor 529 ends
\* the call at once: it is the last response fetched, no wait follows it,
\* and the call throws an error that names the status and is none of the
\* transient errors.
C13_FatalStatusFailsAtOnce ==
  \A i \in DOMAIN seen :
    LET st == seen[i].status IN
    (st # 0 /\ st \notin 200..299 /\ st \notin {429, 529})
      => /\ i = Len(seen)
         /\ rpc = "thrown"
         /\ result.kind = "error"
         /\ result.text \in {"Anthropic API error " \o ToString(st),
                             "GitHub Models API error " \o ToString(st)}
         /\ result.text \notin {"Rate limited (429)",
                                "Anthropic overloaded (529)"}
         /\ Len(waits) = i - 1
         /\ attempt = i - 1

\* C13 witness: status 500 at the second attempt, retries left, one wait.
C13_Witness ==
  /\ Len(seen) = 2 /\ seen[1].status = 429 /\ seen[2].status = 500
  /\ rpc = "thrown" /\ Len(waits) = 1
  /\ result.text = "Anthropic API error 500"

\* C14: when all 4 attempts of a call were answered by a transient signal
\* (each was followed by its wait), the call throws the error of the 4th
\* attempt's signal, and never returns a payload.
C14_LastTransientErrorRaised ==
  /\ Len(waits) = 4
       => /\ rpc = "thrown"
          /\ result.kind = "error"
          /\ result.text = (IF seen[4].status = 429 THEN "Rate limited (429)"
                            ELSE "Anthropic overloaded (529)")
  /\ (rpc = "thrown" /\ Len(seen) = 4 /\ seen[4].status = 429)
       => result.text = "Rate limited (429)"

\* C14 witness: 429, 529, 429, 529: the overload error is thrown.
C14_Witness ==
  /\ rpc = "thrown" /\ Len(seen) = 4
  /\ seen[1].status = 429 /\ seen[2].status = 529
  /\ seen[3].status = 429 /\ seen[4].status = 529
  /\ result.text = "Anthropic overloaded (529)"

\* The text is an integer: an optional sign and decimal digits, nothing else.
IsIntegerText(cs) ==
  LET digits == IF cs # <<>> /\ Head(cs) \in {"-", "+"} THEN Tail(cs) ELSE cs
  IN  digits # <<>> /\ \A k \in DOMAIN digits : IsDigit(digits[k])

\* C15 (as claimed): every wait lies in 1..60; the wait after a 429 at
\* 0-based attempt a is the retry-after hint when the hint is an integer in
\* 1..60 and min(10*(a+1), 30) otherwise, so that a hint that is not a number
\* is ignored; the wait after a 529 is min(15*(a+1), 45).
C15_WaitFormula ==
  \A i \in DOMAIN waits :
    LET a == i - 1
        h == seen[i].retryAfter
    IN  /\ waits[i] \in 1..60
        /\ seen[i].status = 429
             => waits[i] =
                  IF /\ h.present /\ IsIntegerText(h.chars)
                     /\ parseInt(h.chars).n \in 1..60
                    THEN parseInt(h.chars).n
                    ELSE Min(10 * (a + 1), 30)
        /\ seen[i].status = 529 => waits[i] = Min(15 * (a + 1), 45)


\* The user and assistant turns of iterations 1..n of step st, in order.
RECURSIVE TurnsOf(_, _)
TurnsOf(st, n) ==
  IF n = 0 THEN <<>>
  ELSE TurnsOf(st, n - 1) \o
         << [role |-> "user", step |-> st, iteration |-> n],
            [role |-> "assistant", step |-> st, iteration |-> n] >>

\* C16 (as claimed): the history is emptied at the first decide call of a
\* step and at no later iteration of it: at iteration n of a step the
\* request carries, before its own user turn, the user and assistant turns
\* of iterations 1..n-1 of that step and no turn of an earlier step.
C16_HistoryScopedToStep ==
  apc = "call"
    => /\ conversationHistory = TurnsOf(request.step, request.iteration - 1)
       /\ messages = Append(conversationHistory, Turn("user", request))


\* Response texts that are not JSON, bare or fenced.
AnObject ==
  ObjectDoc(JString("t"), JArray(<<ClickCmd>>), JTrue, JTrue,
            JString("observed"))
UnparsableRaws ==
  { <<>>, <<TEXT>>, <<TEXT, SP, DocTok(AnObject)>>,
    <<DocTok(AnObject), TEXT>>, <<DocTok(AnObject), DocTok(AnObject)>>,
    <<FENCE, JSONTAG, NL, TEXT, NL, FENCE>>,
    <<FENCE, TEXT, NL, DocTok(AnObject), NL, FENCE>> }

\* C17: for a response text that is not parsable JSON, decide raises
\* nothing and returns an action with no commands and done = false; the
\* step loop then goes on to the next iteration, and the call counts toward
\* the ceiling of 10: after the 10th call the step times out.
C17_UnparsableKeepsLooping ==
  /\ [](\A text \in UnparsableRaws :
          LET a == parseAgentResponse(text)
          IN  a.commands = <<>> /\ ~a.done /\ a.thought = ParseErrorThought)
  /\ [][(pc = "decide" /\ action'.thought = ParseErrorThought)
          => /\ pc' = "dispatch" /\ raised' = NoError
             /\ todo' = <<>> /\ ~action'.done
             /\ calls' = calls + 1
       ]_vars
  /\ [][(pc = "dispatch" /\ action.thought = ParseErrorThought)
          => /\ iter' = iter + 1 /\ raised' = NoError
             /\ stepResults' = stepResults
             /\ IF calls < 10
                  THEN pc' = "decide" /\ stepStatus' = "pass"
                  ELSE /\ pc' = "screenshot"
                       /\ stepStatus' = "fail"
                       /\ actualResult' = TimeoutText
       ]_vars

\* C17 witness: the 10th call of a step that sent a command before returned
\* the action of an unparsable text.
C17_Witness ==
  /\ pc = "dispatch" /\ action.thought = ParseErrorThought
  /\ calls = 10 /\ sent # <<>> /\ raised = NoError


\* C18 (as claimed): for a response text that is one JSON object, the action
\* returned has no commands when the commands property is missing or not a
\* list, and has done = false whenever the done property is missing or is
\* anything other than the boolean true.
C18_MalformedDefaults ==
  (ppc = "parsed" /\ Len(raw) = 1 /\ raw[1].k = "doc"
     /\ raw[1].doc.t = "object")
    => LET f == raw[1].doc.f
       IN  /\ f.commands.t # "array" => parsed.commands = <<>>
           /\ f.done # JTrue => parsed.done = FALSE


\* The tokens the doc comment promises for its three command strings.
FillHelloWorldTokens ==
  << <<"f", "i", "l", "l">>,
     <<"@", "e", "2">>,
     <<"h", "e", "l", "l", "o", " ", "w", "o", "r", "l", "d">> >>
ClickE3Tokens ==
  << <<"c", "l", "i", "c", "k">>,
     <<"@", "e", "3">> >>
FillSomeValueTokens ==
  << <<"f", "i", "l", "l">>,
     <<"@", "e", "2">>,
     <<"s", "o", "m", "e", " ", "\"", "v", "a", "l", "u", "e", "\"">> >>

\* The characters of cs that are not in S, in order.
RECURSIVE Without(_, _)
Without(cs, S) ==
  IF cs = <<>> THEN <<>>
  ELSE (IF Head(cs) \in S THEN <<>> ELSE <<Head(cs)>>) \o Without(Tail(cs), S)

\* All tokens, one after the other.
RECURSIVE Concat(_)
Concat(parts) == IF parts = <<>> THEN <<>> ELSE Head(parts) \o Concat(Tail(parts))

Blanks == {" ", "\t"}
Quotes == {"\"", "'"}
Has(cs, S) == \E k \in DOMAIN cs : cs[k] \in S

\* Where a run of characters that are not blanks starts.
RunStarts(cs) ==
  {k \in DOMAIN cs : cs[k] \notin Blanks /\ (k = 1 \/ cs[k - 1] \in Blanks)}

\* C19: parseCommand splits on whitespace outside quotes, keeps whitespace
\* inside a quoted span, strips the delimiting quotes and keeps a quote
\* character of the other style inside a span; the three command strings of
\* the claim give the three token lists of the claim.
C19_SplitsOutsideQuotes ==
  cpc # "cmd"
    => /\ cmd = FillHelloWorld => args = FillHelloWorldTokens
       /\ cmd = ClickE3 => args = ClickE3Tokens
       /\ cmd = FillSomeValue => args = FillSomeValueTokens
       /\ ~Has(cmd, Quotes)
            => /\ Len(args) = Cardinality(RunStarts(cmd))
               /\ \A k \in DOMAIN args : args[k] # <<>> /\ ~Has(args[k], Blanks)
               /\ Concat(args) = Without(cmd, Blanks)
       /\ \A q \in Quotes :
            ( /\ Len(cmd) >= 3 /\ cmd[1] = q /\ cmd[Len(cmd)] = q
              /\ ~Has(SubSeq(cmd, 2, Len(cmd) - 1), {q}) )
              => args = <<SubSeq(cmd, 2, Len(cmd) - 1)>>

\* C19 witness: the single-quoted span with double quotes inside is parsed.
C19_Witness ==
  /\ cpc = "parsed" /\ cmd = FillSomeValue
  /\ Len(args) = 3 /\ Has(args[3], {"\""}) /\ Has(args[3], Blanks)

\* The quotes of cs are balanced: reading from the left, where a quote
\* character opens a span that the next one of the same style closes, no
\* span is open at the end.  q is the style of the open span, "" for none.
RECURSIVE OpenSpanAfter(_, _)
OpenSpanAfter(cs, q) ==
  IF cs = <<>> THEN q
  ELSE OpenSpanAfter(Tail(cs),
         IF q = "" THEN (IF Head(cs) \in Quotes THEN Head(cs) ELSE "")
         ELSE IF Head(cs) = q THEN "" ELSE q)
Balanced(cs) == OpenSpanAfter(cs, "") = ""

\* C20 (as claimed): for every command string with balanced quotes, the
\* tokens joined with single blanks parse to the same tokens.
C20_RejoinSameTokens ==
  (cpc = "reparsed" /\ Balanced(cmd)) => again = args

\* C20 (amended): for every command string with balanced quotes whose
\* tokens hold neither whitespace nor a quote character, the tokens joined
\* with single blanks parse to the same tokens.
C20_RejoinSameTokens_PlainTokens ==
  ( /\ cpc = "reparsed" /\ Balanced(cmd)
    /\ \A k \in DOMAIN args : ~Has(args[k], Blanks \cup Quotes) )
    => again = args

\* C20 witness: a string with a quoted span and two tokens is parsed to the
\* same tokens again.
C20_Witness ==
  /\ cpc = "reparsed" /\ Balanced(cmd) /\ Has(cmd, Quotes)
  /\ Len(args) = 2 /\ again = args
  /\ \A k \in DOMAIN args : ~Has(args[k], Blanks \cup Quotes)


\* Where the span that is still open at the end of cs was opened, 0 when
\* the quotes of cs are balanced.
OpenedAt(cs) ==
  LET opens == {k \in DOMAIN cs :
                  /\ cs[k] \in Quotes
                  /\ Balanced(SubSeq(cs, 1, k - 1))
                  /\ ~Has(SubSeq(cs, k + 1, Len(cs)), {cs[k]})}
  IN  IF opens = {} THEN 0 ELSE CHOOSE k \in opens : TRUE

\* The last n elements of cs.
Suffix(cs, n) == SubSeq(cs, Len(cs) - n + 1, Len(cs))

\* C21: parseCommand returns a token list for every string: it is always
\* able to return, the tokens are a function of the string, the empty and
\* the whitespace-only string give no token, and the content of a quote
\* that is not closed, whitespace included, is the end of the last token.
C21_TotalAndTolerant ==
  /\ [](cpc = "cmd" => ENABLED ParseCommand)
  /\ [][cpc = "cmd" => (cpc' = "parsed" /\ args' = parseCommand(cmd))]_vars
  /\ [](cpc # "cmd"
          => /\ (\A k \in DOMAIN cmd : cmd[k] \in Blanks) => args = <<>>
             /\ ~Balanced(cmd)
                  => LET content == SubSeq(cmd, OpenedAt(cmd) + 1, Len(cmd))
                     IN  /\ OpenedAt(cmd) > 0
                         /\ content # <<>>
                              => /\ args # <<>>
                                 /\ Len(args[Len(args)]) >= Len(content)
                                 /\ Suffix(args[Len(args)], Len(content))
                                      = content)

\* C21 witness: a quote that is not closed, with a blank in its content,
\* after a first token.
C21_Witness ==
  /\ cpc = "parsed" /\ ~Balanced(cmd) /\ Len(args) = 2
  /\ Has(SubSeq(cmd, OpenedAt(cmd) + 1, Len(cmd)), Blanks)
  /\ Has(args[2], Blanks)


\* C22 (as claimed): when the setup of a case reported failure (openUrl or
\* waitForNetworkIdle), no step of the case is started and no StepOutcome
\* is produced: the case ends with a case-level fatal error.
C22_SetupFailureIsFatal ==
  (mpc \notin {"idle", "next", "load", "adapter", "setup", "exit"}
     /\ ~setupOk)
    => /\ caseStep = 0
       /\ caseResults = <<>>
       /\ mpc \in {"catch", "finally"}


\* The cases of the run, and whether a report of case c was pushed.
Cases == 1..NumCases
Reported(c) == \E k \in DOMAIN reports : reports[k].test = c

\* C23: a case that ends in the catch of main has no report, and the run
\* goes on: after every case, fatal or not, the loop moves to the next test
\* file, which is started, so that at the end of the run every case has
\* either its report or its fatal error.
C23_FatalCaseDoesNotStopRun ==
  /\ [](\A c \in Cases : fatal[c] => ~Reported(c))
  /\ []((mpc = "next" /\ caseIdx <= NumCases) => ENABLED StartCase)
  /\ [][mpc = "finally" => (mpc' = "next" /\ caseIdx' = caseIdx + 1)]_vars
  /\ [](mpc = "exit"
          => /\ caseIdx = NumCases + 1
             /\ \A c \in Cases : fatal[c] # Reported(c))

\* C23 witness: the first case was fatal, the second ran all its steps to
\* "pass" and is the only one with a report.
C23_Witness ==
  /\ mpc = "exit" /\ fatal[1] /\ ~Reported(1) /\ Reported(2)
  /\ Len(reports) = 1 /\ Len(reports[1].steps) = NumSteps
  /\ \A k \in DOMAIN reports[1].steps : reports[1].steps[k] = "pass"

\* C24: closeBrowser is called exactly once for each case that was started,
\* after the case ended (with a report or with a fatal error) and before
\* the next case starts; at the end of the run every case has its one close
\* and no session is open.
C24_CloseOncePerCase ==
  /\ \A c \in Cases : closes[c] = (IF c < caseIdx THEN 1 ELSE 0)
  /\ mpc \in {"next", "load", "adapter", "setup", "exit"} => session = 0
  /\ mpc = "exit" => \A c \in Cases : closes[c] = 1

\* C24 witness: the run ended after a fatal first case and a second case
\* whose report has an "error" step; both were closed once.
C24_Witness ==
  /\ mpc = "exit" /\ fatal[1] /\ Reported(2)
  /\ reports[1].steps[Len(reports[1].steps)] = "error"
  /\ closes[1] = 1 /\ closes[2] = 1

\* C25: execution is sequential.  A decide call is made on a snapshot taken
\* in the same step; a step is entered only when the outcome of the step
\* before it has been pushed; the browser is opened for a case only when no
\* session of another case is open.
C25_StrictlySequential ==
  /\ [](mpc = "decide" => (snapshotOf = caseStep /\ caseStep >= 1))
  /\ [](Len(caseResults) =
          (IF mpc \in {"decide", "shot-pass", "shot-fail", "shot-error"}
             THEN caseStep - 1 ELSE caseStep))
  /\ [][caseStep' = caseStep + 1 => Len(caseResults) = caseStep]_vars
  /\ [](session \in {0, caseIdx})
  /\ [][session' # session => (session = 0 \/ session' = 0)]_vars

\* C25 witness: the second case is at a later decide call of its second
\* step, after the first case was closed.
C25_Witness ==
  /\ mpc = "decide" /\ caseIdx = 2 /\ caseStep = 2 /\ caseIter >= 1
  /\ snapshotOf = 2 /\ session = 2 /\ closes[1] = 1
  /\ Len(caseResults) = 1


\* The statuses and texts a step can end with before its screenshot.
StepEndings == {"pass", "fail", "error"}

\* C26: every step, however it ended, takes its closing screenshot exactly
\* once before its result is pushed, and the screenshot, failed or not,
\* changes neither the step's status nor its actual text.
C26_ScreenshotOncePerStep ==
  /\ [](pc = "screenshot" => (shots = <<>> /\ ENABLED Screenshot))
  /\ [](pc \in {"decide", "dispatch"} => shots = <<>>)
  /\ [](pc = "push" => Len(shots) = 1)
  /\ [][pc = "screenshot"
          => /\ pc' = "push"
             /\ stepStatus' = stepStatus
             /\ actualResult' = actualResult]_vars
  /\ [][stepResults' # stepResults
          => /\ Len(shots) = 1
             /\ Outcome.status = stepStatus
             /\ Outcome.actual = actualResult
             /\ Outcome.status \in StepEndings]_vars

\* C26 witness: a step that timed out is about to be pushed as "fail" after
\* a screenshot that failed.
C26_Witness ==
  /\ pc = "push" /\ shots = <<"failed">>
  /\ stepStatus = "fail" /\ actualResult = TimeoutText
  /\ iter = MAX_ITERATIONS

\* The next command of the response is a command string, not the sentinel.
AtCommand == pc = "dispatch" /\ todo # <<>> /\ IsString(Head(todo))
               /\ Head(todo) # SNAPSHOT

\* The next command of the response is the sentinel.
AtSentinel == pc = "dispatch" /\ todo # <<>> /\ Head(todo) = SNAPSHOT

\* No element of cmds is the sentinel.
NoSentinel(cmds) == \A k \in DOMAIN cmds : cmds[k] # SNAPSHOT

\* C28: every command of a response that is not the sentinel is sent to the
\* browser and pushed on the executed list, in response order, whatever its
\* result; dispatch then goes on with the next command.  The executed list
\* is at all times the list of commands sent, and the step's result carries
\* it.
C28_EveryCommandExecuted ==
  /\ [][AtCommand
          => /\ sent' = Append(sent, Head(todo))
             /\ allCommands' = Append(allCommands, Head(todo))
             /\ todo' = Tail(todo)
             /\ pc' = "dispatch"]_vars
  /\ [](allCommands = sent /\ NoSentinel(sent))
  /\ [][stepResults' # stepResults
          => Outcome.commands_executed = sent]_vars

\* C28 witness: two commands of a step were sent and are on the executed
\* list although a result had success = false, and the step is pushed.
C28_Witness ==
  /\ pc = "push" /\ cmdFailed /\ raised = NoError
  /\ sent = <<ClickCmd, ClickCmd>> /\ allCommands = sent

\* C29: the sentinel makes dispatch assign `snapshot` anew and nothing
\* else: no command is sent, the executed list and the iteration are as
\* before, no decide call is made, and dispatch goes on with the next
\* command of the response.
C29_SentinelRecaptures ==
  /\ [](AtSentinel => ENABLED DispatchSnapshot)
  /\ [][AtSentinel
          => /\ sinceCapture' = 0
             /\ captured' # "none"
             /\ sent' = sent
             /\ allCommands' = allCommands
             /\ iter' = iter /\ calls' = calls /\ reqIter' = reqIter
             /\ stepStatus' = stepStatus /\ actualResult' = actualResult
             /\ todo' = Tail(todo)
             /\ pc' = "dispatch"]_vars

\* C29 witness: a response was <<command, sentinel>>; the sentinel has just
\* been taken after the command was sent, in the same iteration, and the
\* executed list holds the command alone.
C29_Witness ==
  /\ pc = "dispatch" /\ sent = <<ClickCmd>> /\ allCommands = <<ClickCmd>>
  /\ sinceCapture = 0 /\ todo = <<>> /\ iter = 0 /\ calls = 1


\* C30: after every dispatched command whose verb, the first token
\* parseCommand returns for it, is click, fill, select or press, the settle
\* wait is made.
C30_SettleAfterVerb ==
  (cpc \in {"parsed", "reparsed"} /\ args # <<>> /\ args[1] \in SettleVerbs)
    => settled


\* The words that end the input loop.
Verdicts == {"PASS", "FAIL", "SKIP"}

\* The lines answered at the "> " and verdict prompts, in order.
LoopLines(ts) == SelectSeq(ts, LAMBDA t : t.prompt \in {"line", "verdict"})

\* The last lines of the loop are a PASS, FAIL or SKIP line, or an empty
\* line and an explicit verdict for it.
EndedByVerdict(ts) ==
  LET ls == LoopLines(ts)
      n  == Len(ls)
  IN  /\ n >= 1
      /\ Upper(TrimLine(ls[n].line)) \in Verdicts
      /\ ls[n].prompt = "verdict"
           => (n >= 2 /\ ls[n - 1].prompt = "line"
                      /\ TrimLine(ls[n - 1].line) = "")

\* A line at the "> " prompt is a command line or the re-capture word.
IsCommandLine(t) ==
  /\ t.prompt = "line"
  /\ TrimLine(t.line) # ""
  /\ Upper(TrimLine(t.line)) \notin Verdicts

\* The command list the lines answered so far amount to.
RECURSIVE Accumulated(_)
Accumulated(ts) ==
  IF ts = <<>> THEN <<>>
  ELSE LET t == ts[Len(ts)]
           before == Accumulated(SubSeq(ts, 1, Len(ts) - 1))
       IN  IF ~IsCommandLine(t) THEN before
           ELSE IF Upper(TrimLine(t.line)) = "SNAP"
             THEN Append(before, SNAPSHOT)
           ELSE Append(before, TrimLine(t.line))

\* C27: the interactive adapter leaves its input loop only after a PASS,
\* FAIL or SKIP line, or after an empty line answered with one of these
\* verdicts.  Command lines and the re-capture word are accumulated in
\* order and the loop goes on after them; an empty line answered with
\* something else discards the answer and goes on at the "> " prompt.
\* Every action returned has done = true and carries the accumulated
\* commands.
C27_InteractiveLoop ==
  /\ [](ipc \in {"actual", "what", "return", "returned"}
          => (iDone /\ EndedByVerdict(typed)))
  /\ [](ipc \notin {"idle"} => iCommands = Accumulated(typed))
  /\ [][(ipc = "line" /\ typed' # typed /\ IsCommandLine(typed'[Len(typed')]))
          => (ipc' = "line" /\ Len(iCommands') = Len(iCommands) + 1)]_vars
  /\ [][(ipc = "verdict" /\ typed' # typed
           /\ Upper(TrimLine(typed'[Len(typed')].line)) \notin Verdicts)
          => (ipc' = "line" /\ iCommands' = iCommands /\ ~iDone')]_vars
  /\ [](ipc = "returned"
          => (response.done = TRUE /\ response.commands = iCommands))

\* C27 witness: a command, an empty line answered with another word, the
\* re-capture word and then a PASS line; the action returned carries the
\* command and the sentinel.
C27_Witness ==
  /\ ipc = "returned"
  /\ typed = <<Typed("line", " click @e1"), Typed("line", ""),
               Typed("verdict", "maybe"), Typed("line", "snap"),
               Typed("line", "pass")>>
  /\ response.commands = <<"click @e1", SNAPSHOT>>
  /\ response.done /\ response.success


\* C33: the conversation history is a sequence of (user turn, assistant
\* turn) pairs, one pair for each decide call that got a response since the
\* last reset, both turns of a pair belonging to the same request; the
\* assistant turn holds the response text as callApi returned it, parsable
\* or not, and a decide call whose callApi throws leaves the history as it
\* was.
C33_HistoryIsPairs ==
  /\ [](/\ Len(conversationHistory) = 2 * answered
        /\ Len(contents) = Len(conversationHistory)
        /\ \A k \in 1..answered :
             /\ conversationHistory[2 * k - 1].role = "user"
             /\ conversationHistory[2 * k].role = "assistant"
             /\ conversationHistory[2 * k].step
                  = conversationHistory[2 * k - 1].step
             /\ conversationHistory[2 * k].iteration
                  = conversationHistory[2 * k - 1].iteration
             /\ contents[2 * k - 1] = UserMessage
             /\ contents[2 * k] \in ResponseTexts)
  /\ [][(apc = "call" /\ apc' = "returned")
          => /\ Len(conversationHistory') = Len(conversationHistory) + 2
             /\ SubSeq(conversationHistory', 1, Len(conversationHistory))
                  = conversationHistory
             /\ SubSeq(contents', 1, Len(contents)) = contents]_vars
  /\ [][(apc = "call" /\ apc' = "done")
          => /\ conversationHistory' = conversationHistory
             /\ contents' = contents]_vars

\* C33 witness: the second call of a step got a text that is not JSON; the
\* history holds two pairs and the second assistant turn holds that text.
C33_Witness ==
  /\ apc = "returned" /\ answered = 2 /\ Len(conversationHistory) = 4
  /\ contents[4] = NotJsonText
  /\ parseAgentResponse(contents[4]) = ParseFailure
  /\ request.iteration = 2


\* C31: at every decide call the snapshot in the request was taken after
\* the last command sent to the browser: no command is sent between the
\* capture and the call, whether or not dispatch re-captured on a sentinel.
C31_FreshSnapshotAtDecide ==
  /\ [](pc = "decide" => (sinceCapture = 0 /\ captured # "none"))
  /\ [][calls' = calls + 1 => (sinceCapture = 0 /\ captured # "none")]_vars

\* C31 witness: the second decide call of a step is about to be made after
\* two commands were sent in the first iteration.
C31_Witness ==
  /\ pc = "decide" /\ iter = 1 /\ calls = 1
  /\ sent = <<ClickCmd, ClickCmd>> /\ sinceCapture = 0

\* s is a prefix of t.
IsPrefix(s, t) == Len(s) <= Len(t) /\ SubSeq(t, 1, Len(s)) = s

\* C32: the previousActions of a step's requests is allCommands: empty at
\* the step's first decide call, only appended to between the calls of a
\* step, and holding the commands sent in this step and no others.
C32_PreviousActionsGrow ==
  /\ [][(calls' = calls + 1 /\ calls = 0) => allCommands = <<>>]_vars
  /\ [][calls' = calls + 1 => allCommands = sent]_vars
  /\ [][pc # "loop" => IsPrefix(allCommands, allCommands')]_vars
  /\ [](pc = "decide" => Len(allCommands) <= MaxCmds)

\* C32 witness: the first decide call of the second step is about to be
\* made with an empty list, after a first step that sent a command.
C32_Witness ==
  /\ pc = "decide" /\ stepIdx = 2 /\ calls = 0 /\ allCommands = <<>>
  /\ Len(stepResults) = 1
  /\ stepResults[1].commands_executed = <<ClickCmd>>

\* C36: the done test is made when every command of the response has been
\* taken by dispatch, so a response that is done and has commands has them
\* all sent and on the executed list when the step ends; after the test no
\* capture and no decide call is made in that step.
C36_DispatchBeforeDone ==
  /\ [][(pc = "dispatch" /\ pc' = "screenshot" /\ raised' = NoError)
          => (todo = <<>> /\ allCommands' = allCommands /\ sent' = sent)]_vars
  /\ [][(pc = "dispatch" /\ todo # <<>> /\ raised' = NoError)
          => /\ pc' = "dispatch"
             /\ todo' = Tail(todo)
             /\ (Head(todo) # SNAPSHOT
                  => (sent' = Append(sent, Head(todo))
                        /\ allCommands' = Append(allCommands, Head(todo))))]_vars
  /\ [][(pc = "screenshot" \/ pc = "push")
          => /\ calls' = calls
             /\ captured' = captured
             /\ sinceCapture' = sinceCapture]_vars

\* C36 witness: the only response of a step was done with two commands;
\* both are on the executed list and the step is at its screenshot.
C36_Witness ==
  /\ pc = "screenshot" /\ action.done /\ action.success /\ calls = 1
  /\ stepStatus = "pass" /\ raised = NoError
  /\ sent = <<ClickCmd, ClickCmd>> /\ allCommands = sent


\* The wrappings that are a code fence around the body, with the json tag
\* or without it.
FenceKinds == {"json fence", "plain fence", "tight fence", "padded fence"}

\* C34: a JSON object text in a code fence, with or without the json tag,
\* is parsed to the action the object text alone is parsed to.
C34_FenceIsStripped ==
  ppc = "parsed"
    => \A kind \in FenceKinds : \A k \in DOMAIN raw :
         (raw[k].k = "doc" /\ raw[k].doc.t = "object"
            /\ raw = Wrap(kind, <<raw[k]>>))
           => (/\ parsed = parseAgentResponse(<<raw[k]>>)
               /\ parsed.done = Truthy(raw[k].doc.f.done)
               /\ parsed.commands = CommandsOf(raw[k].doc.f.commands))

\* C34 witness: an object text in a fence without tag was parsed to a done
\* action with its command.
C34_Witness ==
  /\ ppc = "parsed"
  /\ raw = Wrap("plain fence", <<DocTok(AnObject)>>)
  /\ parsed = parseAgentResponse(<<DocTok(AnObject)>>)
  /\ parsed.done /\ parsed.commands = <<ClickCmd>>


\* What callApi of provider p comes to on the responses rs, from response k
\* on, at loop counter a with the waits ws made: the attempts made, the
\* waits and the kind of result; "pending" when rs ends before the call.
RECURSIVE Replay(_, _, _, _, _)
Replay(p, rs, k, a, ws) ==
  LET End(kind, n) == [attempts |-> n, waits |-> ws, kind |-> kind] IN
  IF ~AttemptAllowed(a) THEN End("transient error", k - 1)
  ELSE IF k > Len(rs) THEN End("pending", k - 1)
  ELSE LET r == rs[k] IN
    IF r = FetchRejected THEN End("fatal error", k)
    ELSE IF IsRateLimit(r.status)
      THEN Replay(p, rs, k + 1, a + 1,
                  Append(ws, RateLimitWait(r.retryAfter, a)))
    ELSE IF IsOverload(p, r.status)
      THEN Replay(p, rs, k + 1, a + 1, Append(ws, OverloadWait(a)))
    ELSE IF ~IsOk(r.status) THEN End("fatal error", k)
    ELSE IF r.body.block /\ r.body.text # "" THEN End("payload", k)
    ELSE End("fatal error", k)

\* The replay of the call's own provider is the call: as many attempts as
\* responses seen, and the waits made.
ReplayMatchesRun ==
  CallEnded
    => LET o == Replay(provider, seen, 1, 0, <<>>)
       IN  /\ o.attempts = Len(seen)
           /\ o.waits = waits
           /\ (o.kind = "payload") = (result.kind = "payload")

\* C35: the two adapters apply one retry policy: on the responses a call
\* of one of them saw, the other makes as many attempts, waits as long and
\* ends with the same kind of result.
C35_SameRetryPolicy ==
  CallEnded
    => \A p \in Providers :
         Replay(p, seen, 1, 0, <<>>) = Replay(provider, seen, 1, 0, <<>>)

\* C40: a call that fails by exhaustion has made 4 attempts and 3 waits:
\* no wait follows the attempt that uses up the retries.
C40_NoWaitAfterLastAttempt ==
  (rpc = "thrown" /\ ~AttemptAllowed(attempt))
    => (Len(seen) = MAX_RETRIES + 1 /\ Len(waits) = MAX_RETRIES)


\* C38: the process ends with a failure status exactly when some case of
\* the run did not pass: its report has status fail or error, or it ended
\* with a fatal error and has no report.
C38_ExitStatusReflectsVerdicts ==
  mpc = "exit"
    => ((exitCode # 0)
          <=> \E c \in Cases :
                \/ fatal[c]
                \/ \E k \in DOMAIN reports :
                     reports[k].test = c /\ reports[k].status # "pass")


\* The last line answered in the input loop was SKIP.
SkipTyped ==
  LET ls == LoopLines(typed)
  IN  ls # <<>> /\ Upper(TrimLine(ls[Len(ls)].line)) = "SKIP"

\* C37: no step gets the status "skipped".  A SKIP typed to the
\* interactive adapter is returned as done, not successful, with the text
\* "Step skipped"; the step's status is "fail" and so is the case's.
C37_SkipIsFail ==
  /\ iStatus \in {"pass", "fail", "error"}
  /\ (ipc \in {"returned", "taken"} /\ SkipTyped)
       => /\ response.done
          /\ ~response.success
          /\ response.actual_result = "Step skipped"
  /\ (ipc = "taken" /\ SkipTyped) => (iStatus = "fail" /\ iOverall = "fail")

\* C37 witness: a command, then an empty line answered with Skip; the step
\* the action ended is a fail.
C37_Witness ==
  /\ ipc = "taken"
  /\ typed = <<Typed("line", " click @e1"), Typed("line", ""),
               Typed("verdict", "Skip ")>>
  /\ response.commands = <<"click @e1">>
  /\ iStatus = "fail" /\ iOverall = "fail"

\* Where cmd has an empty quoted span that stands as an argument of its
\* own: outside any quote, with whitespace or an end of the string on
\* either side.
EmptyArguments(cs) ==
  {k \in 1..(Len(cs) - 1) :
     /\ cs[k] \in Quotes /\ cs[k + 1] = cs[k]
     /\ Balanced(SubSeq(cs, 1, k - 1))
     /\ (k = 1 \/ IsSpace(cs[k - 1]))
     /\ (k + 1 = Len(cs) \/ IsSpace(cs[k + 2]))}

\* C39: an empty quoted argument of the command is an empty token at its
\* place in the list parseCommand returns.
C39_EmptyQuotedArgumentKept ==
  cpc \in {"parsed", "reparsed"}
    => \A k \in EmptyArguments(cmd) :
         LET at == Len(parseCommand(SubSeq(cmd, 1, k - 1))) + 1
         IN  Len(args) >= at /\ args[at] = <<>>

============================================================================
